---- MODULE Spec2Model ----
(***************************************************************************)
(* Relationship Agent (theodorechapman/rel-agent).                         *)
(*                                                                         *)
(* A model of the conversation tracker (ConversationTracker), the approval *)
(* parser (parseUserResponse), the inactivity timer (TimerManager), the    *)
(* message router (onMessage in index.ts) and the agent driver             *)
(* (agent-core.ts: sendTakeoverPrompt, activateAgent,                      *)
(* runAgentConversation, waitForResponse, sendWindDownMessage).            *)
(*                                                                         *)
(* Texts are TLA+ strings; Len, \o and SubSeq act on them character by     *)
(* character.  Times are integers in milliseconds.                         *)
(***************************************************************************)
EXTENDS Integers, Sequences, FiniteSets, TLC

VARIABLES
    now,            \* Date.now()
    conversations,  \* ConversationTracker.conversations, in Map insertion order
    inbox,          \* message events the watcher has yet to hand to onMessage
    scans,          \* invocations of the setInterval callback of TimerManager
    sessions,       \* invocations of activateAgent
    timers,         \* pending setTimeout callbacks of the re-activation path
    budget,         \* what the environment may still do (bounds the model)
    lastOp,         \* the operation the last step performed
    parsed,         \* input and result of the last parseUserResponse call
    periodSends,    \* messages sent to each counterpart since its agent was last activated
    config,         \* the AgentConfig of loadConfig, as far as the runs differ in it
    denied          \* per chat: <<stamp>> once the user has denied an offer for it, with
                    \* the lastAgentDeactivationTime of that moment; <<>> after an activation

vars == <<now, conversations, inbox, scans, sessions, timers, budget, lastOp, parsed,
          periodSends, config, denied>>

(***************************************************************************)
(* Bounds of the model.                                                    *)
(***************************************************************************)
MaxTextLen == 3      \* longest text enumerated for the approval parser
MaxNow == 3          \* last clock value of the tracker-level specification
MaxCalls == 4        \* mutating tracker calls per behaviour of the tracker-level specification
MaxFriendMessages == 2   \* messages the counterparts send per behaviour
MaxUserMessages == 2     \* messages the user types per behaviour
MaxTicks == 4            \* clock advances per behaviour
MaxInbox == 1            \* messages written and not yet handed to onMessage
MaxHistory == 2          \* cap of the stored histories tried (styleAnalysisCount, limit)

Null == -1           \* null / absent timestamp

(***************************************************************************)
(* Text helpers (String.prototype.includes / toLowerCase / trim /          *)
(* startsWith / endsWith).                                                 *)
(***************************************************************************)
Max(a, b) == IF a >= b THEN a ELSE b
Min(a, b) == IF a <= b THEN a ELSE b

CharAt(s, i) == SubSeq(s, i, i)

UpperCaseLetters == "ABCDEFGHIJKLMNOPQRSTUVWXYZ"
LowerCaseLetters == "abcdefghijklmnopqrstuvwxyz"

LowerChar(ch) ==
    IF \E i \in 1..26 : CharAt(UpperCaseLetters, i) = ch
    THEN CharAt(LowerCaseLetters, CHOOSE i \in 1..26 : CharAt(UpperCaseLetters, i) = ch)
    ELSE ch

RECURSIVE toLowerCase(_)
toLowerCase(s) ==
    IF Len(s) = 0 THEN ""
    ELSE LowerChar(CharAt(s, 1)) \o toLowerCase(SubSeq(s, 2, Len(s)))

IsSpace(ch) == ch \in {" ", "\t", "\n", "\r"}

RECURSIVE trimStart(_)
trimStart(s) ==
    IF Len(s) > 0 /\ IsSpace(CharAt(s, 1)) THEN trimStart(SubSeq(s, 2, Len(s))) ELSE s

RECURSIVE trimEnd(_)
trimEnd(s) ==
    IF Len(s) > 0 /\ IsSpace(CharAt(s, Len(s))) THEN trimEnd(SubSeq(s, 1, Len(s) - 1)) ELSE s

trim(s) == trimEnd(trimStart(s))

includes(s, sub) ==
    \E i \in 1..(Len(s) - Len(sub) + 1) : SubSeq(s, i, i + Len(sub) - 1) = sub

startsWith(s, p) == Len(s) >= Len(p) /\ SubSeq(s, 1, Len(p)) = p
endsWith(s, p) == Len(s) >= Len(p) /\ SubSeq(s, Len(s) - Len(p) + 1, Len(s)) = p

(***************************************************************************)
(* approval-parser.ts                                                      *)
(***************************************************************************)
APPROVAL_KEYWORDS ==
    <<"take over", "yes", "yeah", "yep", "sure", "ok", "okay", "do it",
      "go ahead", "please", "yea", "ye", "ya", "k">>

DENIAL_KEYWORDS ==
    <<"no", "nope", "don't", "dont", "cancel", "nevermind", "never mind",
      "nah", "stop", "not now", "later">>

isApproval(messageText) ==
    LET normalized == trim(toLowerCase(messageText))
    IN \E i \in 1..Len(APPROVAL_KEYWORDS) : includes(normalized, APPROVAL_KEYWORDS[i])

isDenial(messageText) ==
    LET normalized == trim(toLowerCase(messageText))
    IN \E i \in 1..Len(DENIAL_KEYWORDS) : includes(normalized, DENIAL_KEYWORDS[i])

parseUserResponse(messageText) ==
    IF isApproval(messageText) THEN "approve"
    ELSE IF isDenial(messageText) THEN "deny"
    ELSE "unclear"

(***************************************************************************)
(* conversation-tracker.ts                                                 *)
(*                                                                         *)
(* The Map is a sequence of ConversationState records in insertion order.  *)
(* Every operator takes the Map and returns the Map after the call.        *)
(***************************************************************************)
UserIdentifier == "me"              \* config.userIdentifier
Friends == {"bob"}                  \* counterpart threads
Chats == {UserIdentifier} \cup Friends

DefaultFriendName == "your friend"
DefaultMaxMessagesToSend == 3       \* loadConfig: MAX_AGENT_MESSAGES || '3'
RecentIncomingWindowMs == 300000

Message(chatId, text, date, isFromMe, author) ==
    [chatId |-> chatId, text |-> text, date |-> date, isFromMe |-> isFromMe,
     author |-> author]

NewConversation(chatId, t) ==
    [chatId |-> chatId,
     friendName |-> DefaultFriendName,
     lastOutgoingTimestamp |-> t,
     lastIncomingTimestamp |-> Null,
     isAgentActive |-> FALSE,
     awaitingApproval |-> FALSE,
     messagesSent |-> 0,
     lastAgentDeactivationTime |-> Null,
     userMessageHistory |-> <<>>,
     conversationHistory |-> <<>>]

NoConv == NewConversation("", Null)     \* undefined (Map.get of a missing key)

Has(convs, chatId) == \E i \in 1..Len(convs) : convs[i].chatId = chatId

IndexOf(convs, chatId) == CHOOSE i \in 1..Len(convs) : convs[i].chatId = chatId

getConversation(convs, chatId) ==
    IF Has(convs, chatId) THEN convs[IndexOf(convs, chatId)] ELSE NoConv

getAllConversations(convs) == convs

\* Map.set for a key that may or may not be present
MapSet(convs, conv) ==
    IF Has(convs, conv.chatId)
    THEN [convs EXCEPT ![IndexOf(convs, conv.chatId)] = conv]
    ELSE Append(convs, conv)

\* variant that replaces an existing record by a fresh one
getOrCreateConversation_recreate(convs, chatId, t) ==
    IF Has(convs, chatId) THEN MapSet(convs, NewConversation(chatId, t))
    ELSE Append(convs, NewConversation(chatId, t))

getOrCreateConversation(convs, chatId, t) ==
    IF Has(convs, chatId) THEN convs ELSE Append(convs, NewConversation(chatId, t))

\* mutant of updateOutgoingMessage: the deactivation branch is missing
updateOutgoingMessage_noReclaim(convs, chatId, message, isAgentMessage, t) ==
    LET created == getOrCreateConversation(convs, chatId, t)
        c0 == getConversation(created, chatId)
        c1 == [c0 EXCEPT !.lastOutgoingTimestamp = message.date]
        c2 == IF ~isAgentMessage
              THEN [c1 EXCEPT !.userMessageHistory = Append(@, message)]
              ELSE c1
        c4 == IF ~isAgentMessage THEN [c2 EXCEPT !.awaitingApproval = FALSE] ELSE c2
    IN MapSet(created, c4)

\* mutant of updateOutgoingMessage: an agent message is added to the user's history
updateOutgoingMessage_agentInHistory(convs, chatId, message, isAgentMessage, t) ==
    LET created == getOrCreateConversation(convs, chatId, t)
        c0 == getConversation(created, chatId)
        c1 == [c0 EXCEPT !.lastOutgoingTimestamp = message.date]
        c2 == [c1 EXCEPT !.userMessageHistory = Append(@, message)]
        c3 == IF c2.isAgentActive /\ ~isAgentMessage
              THEN [c2 EXCEPT !.isAgentActive = FALSE, !.messagesSent = 0]
              ELSE c2
        c4 == IF ~isAgentMessage THEN [c3 EXCEPT !.awaitingApproval = FALSE] ELSE c3
    IN MapSet(created, c4)

\* variant that leaves awaitingApproval as it is
updateOutgoingMessage_keepAwaiting(convs, chatId, message, isAgentMessage, t) ==
    LET created == getOrCreateConversation(convs, chatId, t)
        c0 == getConversation(created, chatId)
        c1 == [c0 EXCEPT !.lastOutgoingTimestamp = message.date]
        c2 == IF ~isAgentMessage
              THEN [c1 EXCEPT !.userMessageHistory = Append(@, message)]
              ELSE c1
        c3 == IF c2.isAgentActive /\ ~isAgentMessage
              THEN [c2 EXCEPT !.isAgentActive = FALSE, !.messagesSent = 0]
              ELSE c2
    IN MapSet(created, c3)

updateOutgoingMessage(convs, chatId, message, isAgentMessage, t) ==
    LET created == getOrCreateConversation(convs, chatId, t)
        c0 == getConversation(created, chatId)
        \* Always update timestamp
        c1 == [c0 EXCEPT !.lastOutgoingTimestamp = message.date]
        \* Only add to user history if it's not an agent message
        c2 == IF ~isAgentMessage
              THEN [c1 EXCEPT !.userMessageHistory = Append(@, message)]
              ELSE c1
        \* If user responds while agent is active, deactivate the agent
        c3 == IF c2.isAgentActive /\ ~isAgentMessage
              THEN [c2 EXCEPT !.isAgentActive = FALSE, !.messagesSent = 0]
              ELSE c2
        \* Reset approval state only if user sent the message
        c4 == IF ~isAgentMessage THEN [c3 EXCEPT !.awaitingApproval = FALSE] ELSE c3
    IN MapSet(created, c4)

updateIncomingMessage(convs, chatId, message, t) ==
    LET created == getOrCreateConversation(convs, chatId, t)
        c0 == getConversation(created, chatId)
    IN MapSet(created, [c0 EXCEPT !.lastIncomingTimestamp = message.date,
                                  !.conversationHistory = Append(@, message)])

\* mutant of IsInactive: neither state check is made
IsInactive_noStateCheck(conv, thresholdMs, maxInactivityMs, userIdentifier, t) ==
    LET inactivityMs == t - conv.lastOutgoingTimestamp
    IN /\ ~(userIdentifier # "" /\ conv.chatId = userIdentifier)
       /\ inactivityMs >= thresholdMs /\ inactivityMs <= maxInactivityMs
       /\ conv.lastIncomingTimestamp # Null
       /\ t - conv.lastIncomingTimestamp < RecentIncomingWindowMs

\* mutant of IsInactive: both ends of the range are exclusive
IsInactive_exclusive(conv, thresholdMs, maxInactivityMs, userIdentifier, t) ==
    LET inactivityMs == t - conv.lastOutgoingTimestamp
    IN /\ ~(userIdentifier # "" /\ conv.chatId = userIdentifier)
       /\ ~(conv.isAgentActive \/ conv.awaitingApproval)
       /\ inactivityMs > thresholdMs /\ inactivityMs < maxInactivityMs
       /\ conv.lastIncomingTimestamp # Null
       /\ t - conv.lastIncomingTimestamp < RecentIncomingWindowMs
       /\ ~conv.isAgentActive /\ ~conv.awaitingApproval

\* variant whose window includes a message exactly five minutes old
IsInactive_inclusiveWindow(conv, thresholdMs, maxInactivityMs, userIdentifier, t) ==
    LET inactivityMs == t - conv.lastOutgoingTimestamp
    IN /\ ~(userIdentifier # "" /\ conv.chatId = userIdentifier)
       /\ ~(conv.isAgentActive \/ conv.awaitingApproval)
       /\ inactivityMs >= thresholdMs /\ inactivityMs <= maxInactivityMs
       /\ conv.lastIncomingTimestamp # Null
       /\ t - conv.lastIncomingTimestamp <= RecentIncomingWindowMs
       /\ ~conv.isAgentActive /\ ~conv.awaitingApproval

\* variant without the skip of the user's own conversation
IsInactive_noSelfSkip(conv, thresholdMs, maxInactivityMs, userIdentifier, t) ==
    LET inactivityMs == t - conv.lastOutgoingTimestamp
    IN /\ ~(conv.isAgentActive \/ conv.awaitingApproval)
       /\ inactivityMs >= thresholdMs /\ inactivityMs <= maxInactivityMs
       /\ conv.lastIncomingTimestamp # Null
       /\ t - conv.lastIncomingTimestamp < RecentIncomingWindowMs
       /\ ~conv.isAgentActive /\ ~conv.awaitingApproval

\* the test of one conversation in the loop of getInactiveConversations
IsInactive(conv, thresholdMs, maxInactivityMs, userIdentifier, t) ==
    LET inactivityMs == t - conv.lastOutgoingTimestamp
    IN /\ ~(userIdentifier # "" /\ conv.chatId = userIdentifier)
       /\ ~(conv.isAgentActive \/ conv.awaitingApproval)
       /\ inactivityMs >= thresholdMs /\ inactivityMs <= maxInactivityMs
       /\ conv.lastIncomingTimestamp # Null
       /\ t - conv.lastIncomingTimestamp < RecentIncomingWindowMs
       /\ ~conv.isAgentActive /\ ~conv.awaitingApproval

\* the conversations returned, in Map order
getInactiveConversations(convs, thresholdMs, maxInactivityMs, userIdentifier, t) ==
    SelectSeq(convs, LAMBDA conv :
        IsInactive(conv, thresholdMs, maxInactivityMs, userIdentifier, t))

\* variant that leaves the flag as it is
markAwaitingApproval_noMark(convs, chatId) == convs

markAwaitingApproval(convs, chatId) ==
    IF Has(convs, chatId)
    THEN [convs EXCEPT ![IndexOf(convs, chatId)].awaitingApproval = TRUE]
    ELSE convs

markAgentActive(convs, chatId) ==
    IF Has(convs, chatId)
    THEN [convs EXCEPT ![IndexOf(convs, chatId)] =
              [@ EXCEPT !.isAgentActive = TRUE, !.awaitingApproval = FALSE,
                        !.messagesSent = 0]]
    ELSE convs

\* variant that does not stamp the time of the deactivation
markAgentInactive_noStamp(convs, chatId, t) ==
    IF Has(convs, chatId)
    THEN [convs EXCEPT ![IndexOf(convs, chatId)] =
              [@ EXCEPT !.isAgentActive = FALSE, !.messagesSent = 0]]
    ELSE convs

markAgentInactive(convs, chatId, t) ==
    IF Has(convs, chatId)
    THEN [convs EXCEPT ![IndexOf(convs, chatId)] =
              [@ EXCEPT !.isAgentActive = FALSE, !.messagesSent = 0,
                        !.lastAgentDeactivationTime = t]]
    ELSE convs

\* variant that leaves the count as it is
incrementMessageCount_noCount(convs, chatId) == convs

incrementMessageCount(convs, chatId) ==
    IF Has(convs, chatId)
    THEN [convs EXCEPT ![IndexOf(convs, chatId)].messagesSent = @ + 1]
    ELSE convs

\* variant that leaves the conversation as it is
resetConversation_noClear(convs, chatId) == convs

resetConversation(convs, chatId) ==
    IF Has(convs, chatId)
    THEN [convs EXCEPT ![IndexOf(convs, chatId)] =
              [@ EXCEPT !.isAgentActive = FALSE, !.awaitingApproval = FALSE,
                        !.messagesSent = 0]]
    ELSE convs

\* Array.prototype.slice(-limit)
SliceLast(seq, limit) ==
    IF limit <= 0 THEN seq    \* slice(-0) is slice(0)
    ELSE SubSeq(seq, Max(1, Len(seq) - limit + 1), Len(seq))

getUserMessageHistory(convs, chatId, limit) ==
    IF Has(convs, chatId)
    THEN SliceLast(getConversation(convs, chatId).userMessageHistory, limit)
    ELSE <<>>

getConversationHistory(convs, chatId, limit) ==
    IF Has(convs, chatId)
    THEN SliceLast(getConversation(convs, chatId).conversationHistory, limit)
    ELSE <<>>

setFriendName(convs, chatId, friendName) ==
    IF Has(convs, chatId)
    THEN [convs EXCEPT ![IndexOf(convs, chatId)].friendName = friendName]
    ELSE convs


(***************************************************************************)
(* agent-core.ts: pure helpers                                             *)
(***************************************************************************)
\* a regular-expression literal matched at offset n of s (n characters are
\* consumed so far, -1 is a failed match)
LitAt(s, n, lit) == n >= 0 /\ startsWith(SubSeq(s, n + 1, Len(s)), lit)
Lit(s, n, lit) == IF LitAt(s, n, lit) THEN n + Len(lit) ELSE -1
Opt(s, n, lit) == IF LitAt(s, n, lit) THEN n + Len(lit) ELSE n
Alt(s, n, lits) ==
    IF \E i \in 1..Len(lits) : LitAt(s, n, lits[i])
    THEN n + Len(lits[CHOOSE i \in 1..Len(lits) : LitAt(s, n, lits[i])])
    ELSE -1

RECURSIVE Spaces(_, _)
Spaces(s, n) ==
    IF n >= 0 /\ n < Len(s) /\ IsSpace(CharAt(s, n + 1)) THEN Spaces(s, n + 1) ELSE n

\* /^here'?s? (my|the|a) (message|response|reply):?\s*/i
PrefixHeres(s) ==
    LET l == toLowerCase(s)
        n1 == Opt(l, Opt(l, Lit(l, 0, "here"), "'"), "s")
        n2 == Alt(l, Lit(l, n1, " "), <<"my", "the", "a">>)
        n3 == Alt(l, Lit(l, n2, " "), <<"message", "response", "reply">>)
    IN Spaces(l, Opt(l, n3, ":"))

\* /^(message|response|reply):?\s*/i
PrefixMessage(s) ==
    LET l == toLowerCase(s)
    IN Spaces(l, Opt(l, Alt(l, 0, <<"message", "response", "reply">>), ":"))

\* /^i would (say|respond|text):?\s*/i
PrefixIWould(s) ==
    LET l == toLowerCase(s)
    IN Spaces(l, Opt(l, Alt(l, Lit(l, 0, "i would "), <<"say", "respond", "text">>), ":"))

\* String.prototype.replace with an anchored pattern: n characters matched
RemovePrefix(s, n) == IF n >= 0 THEN SubSeq(s, n + 1, Len(s)) ELSE s

cleanupAgentResponse(text) ==
    LET t0 == trim(text)
        t1 == IF \/ startsWith(t0, "\"") /\ endsWith(t0, "\"")
                 \/ startsWith(t0, "'") /\ endsWith(t0, "'")
              THEN SubSeq(t0, 2, Len(t0) - 1)
              ELSE t0
        t2 == RemovePrefix(t1, PrefixHeres(t1))
        t3 == RemovePrefix(t2, PrefixMessage(t2))
        t4 == RemovePrefix(t3, PrefixIWould(t3))
    IN trim(t4)

PromptMessage(friendName) ==
    "Hey, are you trying to ghost " \o friendName \o " or do you want me to take over?"

\* variant that never recognises the prompt
IsPromptEcho_never(messageText) == FALSE

\* index.ts: the test that recognises the echo of the prompt
IsPromptEcho(messageText) ==
    \/ includes(messageText, "are you trying to ghost")
    \/ includes(messageText, "do you want me to take over?")

DefaultWindDownText == "gotta go, talk later!"

\* activateAgent: the notice sent to the user's own address from its catch
\* (the warning sign at its head, which has no letter, is written "!")
ErrorNotice(friendName) ==
    "! Agent encountered an error with " \o friendName \o ". Taking back control."

(***************************************************************************)
(* What a step did: the operation, the conversation it was about, that     *)
(* conversation's record before the step, the message handed in and the    *)
(* value returned.                                                         *)
(***************************************************************************)
NoMessage == Message("", "", Null, FALSE, "")

Op(op, chatId, isAgentMessage, before, message, result) ==
    [op |-> op, chatId |-> chatId, isAgentMessage |-> isAgentMessage,
     before |-> before, message |-> message, result |-> result]

Budget(calls, friendMessages, userMessages, ticks) ==
    [calls |-> calls, friendMessages |-> friendMessages,
     userMessages |-> userMessages, ticks |-> ticks]

(***************************************************************************)
(* Tracker-level specification: the public methods of ConversationTracker  *)
(* called in any order with any arguments, and the clock.                  *)
(***************************************************************************)
ThresholdChoices == {1, 2}          \* thresholdMs arguments tried
MaxInactivityChoices == {2}         \* maxInactivityMs arguments tried
TrackerChats == {"bob"}             \* chatId arguments tried
UserIdentifierChoices == {"", UserIdentifier} \cup TrackerChats   \* userIdentifier? arguments tried

TrackerInit ==
    /\ now = 0
    /\ conversations = <<>>
    /\ inbox = <<>>
    /\ scans = <<>>
    /\ sessions = <<>>
    /\ timers = <<>>
    /\ periodSends = <<>>
    /\ config = [maxMessagesToSend |-> DefaultMaxMessagesToSend]
    /\ denied = <<>>
    /\ budget = Budget(MaxCalls, 0, 0, 0)
    /\ lastOp = Op("init", "", FALSE, NoConv, NoMessage, <<>>)
    /\ parsed = [text |-> "", result |-> "unclear"]

TrackerFrame == UNCHANGED <<inbox, scans, sessions, timers, parsed, config, denied, periodSends>>

Called == budget' = [budget EXCEPT !.calls = @ - 1]

TrackerTick ==
    /\ now < MaxNow
    /\ now' = now + 1
    /\ lastOp' = Op("tick", "", FALSE, NoConv, NoMessage, <<>>)
    /\ UNCHANGED <<conversations, budget>>
    /\ TrackerFrame

CallUpdateOutgoingMessage(chatId, isAgentMessage) ==
    LET message == Message(chatId, "hi", now, TRUE,
                           IF isAgentMessage THEN "agent" ELSE "user")
    IN /\ budget.calls > 0
       /\ conversations' =
              updateOutgoingMessage(conversations, chatId, message, isAgentMessage, now)
       /\ lastOp' = Op("updateOutgoingMessage", chatId, isAgentMessage,
                       getConversation(conversations, chatId), message, <<>>)
       /\ Called
       /\ UNCHANGED now
       /\ TrackerFrame

CallUpdateIncomingMessage(chatId) ==
    LET message == Message(chatId, "hi", now, FALSE, "friend")
    IN /\ budget.calls > 0
       /\ conversations' = updateIncomingMessage(conversations, chatId, message, now)
       /\ lastOp' = Op("updateIncomingMessage", chatId, FALSE,
                       getConversation(conversations, chatId), message, <<>>)
       /\ Called
       /\ UNCHANGED now
       /\ TrackerFrame

CallGetInactiveConversations(thresholdMs, maxInactivityMs, userIdentifier) ==
    /\ lastOp' = Op("getInactiveConversations", userIdentifier, FALSE, NoConv,
                    Message("", "", thresholdMs, FALSE, ""),
                    getInactiveConversations(conversations, thresholdMs,
                                             maxInactivityMs, userIdentifier, now))
    /\ UNCHANGED <<now, conversations, budget>>
    /\ TrackerFrame

CallMutator(name, chatId) ==
    /\ budget.calls > 0
    /\ conversations' =
           CASE name = "markAwaitingApproval" -> markAwaitingApproval(conversations, chatId)
             [] name = "markAgentActive" -> markAgentActive(conversations, chatId)
             [] name = "markAgentInactive" -> markAgentInactive(conversations, chatId, now)
             [] name = "incrementMessageCount" -> incrementMessageCount(conversations, chatId)
             [] name = "resetConversation" -> resetConversation(conversations, chatId)
    \* the mutators have no throw statement: every call returns normally
    /\ lastOp' = Op(name, chatId, FALSE, getConversation(conversations, chatId),
                    NoMessage, "returned")
    /\ Called
    /\ UNCHANGED now
    /\ TrackerFrame

CallMarkAwaitingApproval ==
    \E chatId \in TrackerChats : CallMutator("markAwaitingApproval", chatId)
CallMarkAgentActive ==
    \E chatId \in TrackerChats : CallMutator("markAgentActive", chatId)
CallMarkAgentInactive ==
    \E chatId \in TrackerChats : CallMutator("markAgentInactive", chatId)
CallIncrementMessageCount ==
    \E chatId \in TrackerChats : CallMutator("incrementMessageCount", chatId)
CallResetConversation ==
    \E chatId \in TrackerChats : CallMutator("resetConversation", chatId)

TrackerNext ==
    \/ TrackerTick
    \/ \E chatId \in TrackerChats, isAgentMessage \in BOOLEAN :
           CallUpdateOutgoingMessage(chatId, isAgentMessage)
    \/ \E chatId \in TrackerChats : CallUpdateIncomingMessage(chatId)
    \/ \E th \in ThresholdChoices, mx \in MaxInactivityChoices,
          uid \in UserIdentifierChoices : CallGetInactiveConversations(th, mx, uid)
    \/ CallMarkAwaitingApproval
    \/ CallMarkAgentActive
    \/ CallMarkAgentInactive
    \/ CallIncrementMessageCount
    \/ CallResetConversation

SpecTracker == TrackerInit /\ [][TrackerNext]_vars

(***************************************************************************)
(* Parser-level specification: parseUserResponse applied to every text of  *)
(* at most MaxTextLen characters over ParserAlphabet.                      *)
(***************************************************************************)
ParserAlphabet == {"y", "e", "s", "n", "o", "k", "N", " "}

RECURSIVE TextsUpTo(_)
TextsUpTo(n) ==
    IF n = 0 THEN {""}
    ELSE TextsUpTo(n - 1) \cup {s \o ch : s \in TextsUpTo(n - 1), ch \in ParserAlphabet}

ParserInit ==
    /\ now = 0
    /\ conversations = <<>>
    /\ inbox = <<>>
    /\ scans = <<>>
    /\ sessions = <<>>
    /\ timers = <<>>
    /\ periodSends = <<>>
    /\ config = [maxMessagesToSend |-> DefaultMaxMessagesToSend]
    /\ denied = <<>>
    /\ budget = Budget(0, 0, 0, 0)
    /\ lastOp = Op("init", "", FALSE, NoConv, NoMessage, <<>>)
    /\ \E text \in TextsUpTo(MaxTextLen) : parsed = [text |-> text, result |-> "pending"]

CallParseUserResponse ==
    /\ parsed.result = "pending"
    /\ parsed' = [parsed EXCEPT !.result = parseUserResponse(parsed.text)]
    /\ lastOp' = Op("parseUserResponse", "", FALSE, NoConv, NoMessage, <<>>)
    /\ UNCHANGED <<now, conversations, inbox, scans, sessions, timers, budget, periodSends,
                   config, denied>>

ParserNext == CallParseUserResponse

SpecParser == ParserInit /\ [][ParserNext]_vars


(***************************************************************************)
(* The running program: index.ts (main, onMessage), TimerManager and       *)
(* agent-core.ts, with the transport, the generation service and the user  *)
(* and the counterparts as environment.                                    *)
(*                                                                         *)
(* One action is one run of the event loop: a callback or the continuation *)
(* of an await up to its next await.                                       *)
(***************************************************************************)
inactivityThresholdMs == 120000     \* config
MaxTurnsChoices == {1, 2}           \* config.maxMessagesToSend (MAX_AGENT_MESSAGES) tried
timerCheckIntervalMs == 30000       \* config
maxInactivityMs == 3600000          \* config
responseTimeoutMs == 60000          \* config
ReactivationWindowMs == 300000      \* index.ts: timeSinceDeactivation < 300000
ReactivationDelayMs == 5000         \* index.ts: setTimeout(..., 5000)
PollIntervalMs == 2000              \* waitForResponse: setInterval(..., 2000)
NaturalDelayMs == 2000              \* runAgentConversation: setTimeout(resolve, 2000)

TickSteps == {responseTimeoutMs}             \* clock advances tried
ReplyTexts == {"yes", "no"}                 \* what the user types to their own address
ThreadText == "stop, I got it"              \* what the user types to a counterpart
FriendText == "hey"                         \* what a counterpart sends
FallbackName == "your friend"                   \* getFriendName: no displayName, or listChats rejects
ResolveChoices == {"Bob"}                       \* results of getFriendName
GenerateChoices == {"sounds good", "\"\""}      \* response.text of relationshipAgent.generate
Throw == "<throw>"                              \* the awaited call rejects

\* runAgentConversation: messageText for each response.text
TurnText == [text \in GenerateChoices |-> cleanupAgentResponse(trim(text))]

\* sendWindDownMessage: windDownText for each response.text
WindDownText ==
    [text \in GenerateChoices |->
        cleanupAgentResponse(IF trim(text) = "" THEN DefaultWindDownText ELSE trim(text))]

\* onMessage: how each text that can arrive on the user's own address is read
Reading ==
    [text \in ReplyTexts
               \cup {PromptMessage(friendName) : friendName \in ResolveChoices \cup {FallbackName}}
               \cup {ErrorNotice(friendName) : friendName \in ResolveChoices \cup {FallbackName}} |->
        [echo |-> IsPromptEcho(text), response |-> parseUserResponse(text)]]

Scan(pc, list, text) == [pc |-> pc, list |-> list, text |-> text]

Session(pc, chatId, messagesSent, startTime, initialMessageCount, text) ==
    [pc |-> pc, chatId |-> chatId, messagesSent |-> messagesSent,
     startTime |-> startTime, initialMessageCount |-> initialMessageCount,
     text |-> text]

ChatIds(convs) == [i \in 1..Len(convs) |-> convs[i].chatId]

\* allConversations.find(c => c.awaitingApproval)
\* variant that picks the last conversation that awaits approval
FindAwaiting_last(convs) ==
    IF \E i \in 1..Len(convs) : convs[i].awaitingApproval
    THEN convs[CHOOSE i \in 1..Len(convs) :
                   /\ convs[i].awaitingApproval
                   /\ \A j \in (i + 1)..Len(convs) : ~convs[j].awaitingApproval]
    ELSE NoConv

FindAwaiting(convs) ==
    IF \E i \in 1..Len(convs) : convs[i].awaitingApproval
    THEN convs[CHOOSE i \in 1..Len(convs) :
                   /\ convs[i].awaitingApproval
                   /\ \A j \in 1..(i - 1) : ~convs[j].awaitingApproval]
    ELSE NoConv

IsActive(convs, chatId) == getConversation(convs, chatId).isAgentActive

\* no offer is out and no session runs
IsIdle(conv) == ~conv.isAgentActive /\ ~conv.awaitingApproval /\ conv.messagesSent = 0

\* the chats whose agent is active
Active(convs) == {convs[i].chatId : i \in {j \in 1..Len(convs) : convs[j].isAgentActive}}

\* runAgentConversation from the loop condition to the call of generate
LoopTop(convs, sess, t) ==
    IF sess.messagesSent >= config.maxMessagesToSend
    THEN [convs |-> markAgentInactive(convs, sess.chatId, t),
          sess |-> [sess EXCEPT !.pc = "done"]]
    ELSE IF ~Has(convs, sess.chatId) \/ ~IsActive(convs, sess.chatId)
    THEN [convs |-> convs, sess |-> [sess EXCEPT !.pc = "done"]]
    ELSE [convs |-> convs, sess |-> [sess EXCEPT !.pc = "generate"]]

\* activateAgent up to its first await
activateAgent(convs, chatId, t) ==
    LoopTop(markAgentActive(convs, chatId), Session("start", chatId, 0, Null, 0, ""), t)

\* variant of the break of the loop without markAgentInactive
Deactivate_noMark(convs, sess, t) ==
    [convs |-> convs, sess |-> [sess EXCEPT !.pc = "done"]]

\* the break of the loop: markAgentInactive and the session is over
Deactivate(convs, sess, t) ==
    [convs |-> markAgentInactive(convs, sess.chatId, t),
     sess |-> [sess EXCEPT !.pc = "done"]]

\* the offers and sessions that have not run to their end
Running(procs) == SelectSeq(procs, LAMBDA p : p.pc # "done")

\* what the environment may do in a behaviour: either the user is the talkative
\* one or the counterpart is
EnvironmentBudgets ==
    {Budget(0, 1, MaxUserMessages, MaxTicks),
     Budget(0, MaxFriendMessages, MaxUserMessages - 1, MaxTicks)}

SystemInit ==
    /\ now = 0
    /\ conversations = <<>>
    /\ inbox = <<>>
    /\ scans = <<>>
    /\ sessions = <<>>
    /\ timers = [scanDue |-> timerCheckIntervalMs, reactivations |-> <<>>]
    /\ budget \in EnvironmentBudgets
    /\ lastOp = Op("init", "", FALSE, <<>>, NoMessage, <<>>)
    /\ parsed = [text |-> "", result |-> "unclear"]
    /\ periodSends = [chatId \in Chats |-> 0]
    /\ config \in [maxMessagesToSend : MaxTurnsChoices]
    /\ denied = [chatId \in Chats |-> <<>>]

QuietOp(op) == Op(op, "", FALSE, <<>>, NoMessage, <<>>)

\* the messages a poll of waitForResponse looks at
NewIncoming(convs, sess) ==
    LET currentHistory == getConversationHistory(convs, sess.chatId, 10)
    IN IF Len(currentHistory) > sess.initialMessageCount
       THEN {k \in (sess.initialMessageCount + 1)..Len(currentHistory) :
                ~currentHistory[k].isFromMe /\ currentHistory[k].date >= sess.startTime}
       ELSE {}

\* a poll of waitForResponse is due and finds the agent gone or a new message
PollResolves(sess) ==
    /\ now >= sess.startTime + PollIntervalMs
    /\ \/ ~Has(conversations, sess.chatId)
       \/ ~IsActive(conversations, sess.chatId)
       \/ NewIncoming(conversations, sess) # {}

\* a timer callback is due: the interval of the scanner, a re-activation, the
\* timeout or a resolving poll of waitForResponse, the end of the 2 s pause
TimerDue ==
    \/ now >= timers.scanDue
    \/ timers.reactivations # <<>> /\ now >= Head(timers.reactivations).due
    \/ \E i \in 1..Len(sessions) :
           \/ sessions[i].pc = "wait" /\ now >= sessions[i].startTime + responseTimeoutMs
           \/ sessions[i].pc = "wait" /\ PollResolves(sessions[i])
           \/ sessions[i].pc = "delay" /\ now >= sessions[i].startTime + NaturalDelayMs

\* time passes; the event loop is never blocked, so the watcher (pollInterval
\* 2000) has handed over what was written and due timer callbacks have run
Tick ==
    \E d \in TickSteps :
        /\ budget.ticks > 0
        /\ inbox = <<>>
        /\ ~TimerDue
        /\ now' = now + d
        /\ budget' = [budget EXCEPT !.ticks = @ - 1]
        /\ lastOp' = QuietOp("tick")
        /\ UNCHANGED <<conversations, inbox, scans, sessions, timers, parsed, config, denied, periodSends>>

\* a counterpart opens the conversation, or answers in a thread the program
\* has taken over at some time
FriendSends ==
    \E chatId \in Friends :
        /\ budget.friendMessages > 0
        /\ \/ ~Has(conversations, chatId)
           \/ IsActive(conversations, chatId)
           \/ getConversation(conversations, chatId).lastAgentDeactivationTime # Null
        /\ Len(inbox) < MaxInbox
        /\ inbox' = Append(inbox, Message(chatId, FriendText, now, FALSE, "friend"))
        /\ budget' = [budget EXCEPT !.friendMessages = @ - 1]
        /\ lastOp' = QuietOp("friendSends")
        /\ UNCHANGED <<now, conversations, scans, sessions, timers, parsed, config, denied, periodSends>>

\* the chats the program has offered to take over or has taken over
Engaged(convs) ==
    {convs[i].chatId : i \in {j \in 1..Len(convs) :
                                  convs[j].isAgentActive \/ convs[j].awaitingApproval}}

\* the user answers an offer on their own address (also right after having
\* written in a counterpart's thread), or types in a thread the program is
\* engaged in or has been engaged in
UserTypes ==
    \E chatId \in Chats, text \in ReplyTexts \cup {ThreadText} :
        /\ budget.userMessages > 0
        /\ Len(inbox) < MaxInbox
        /\ (chatId = UserIdentifier) <=> (text \in ReplyTexts)
        /\ IF chatId = UserIdentifier
           THEN \/ Engaged(conversations) # {}
                \/ /\ lastOp.op = "onMessage"
                   /\ lastOp.chatId \in Friends
                   /\ lastOp.message.author = "user"
           ELSE \/ chatId \in Engaged(conversations)
                \/ getConversation(conversations, chatId).lastAgentDeactivationTime # Null
        /\ inbox' = Append(inbox, Message(chatId, text, now, TRUE, "user"))
        /\ budget' = [budget EXCEPT !.userMessages = @ - 1]
        /\ lastOp' = QuietOp("userTypes")
        /\ UNCHANGED <<now, conversations, scans, sessions, timers, parsed, config, denied, periodSends>>


\* onMessage, lines 117-140: what the classified reply does to the conversation
\* that awaits approval (variant without the already-active check)
HandleReply_noActiveCheck(convs, awaitingConv, response, t) ==
    IF response = "approve"
    THEN LET r == activateAgent(convs, awaitingConv.chatId, t)
         IN [convs |-> r.convs, started |-> <<r.sess>>]
    ELSE IF response = "deny"
    THEN [convs |-> resetConversation(convs, awaitingConv.chatId), started |-> <<>>]
    ELSE [convs |-> convs, started |-> <<>>]

\* onMessage, lines 117-140: what the classified reply does to the conversation
\* that awaits approval
HandleReply(convs, awaitingConv, response, t) ==
    IF response = "approve"
    THEN IF awaitingConv.isAgentActive
         THEN [convs |-> convs, started |-> <<>>]
         ELSE LET r == activateAgent(convs, awaitingConv.chatId, t)
              IN [convs |-> r.convs, started |-> <<r.sess>>]
    ELSE IF response = "deny"
    THEN [convs |-> resetConversation(convs, awaitingConv.chatId), started |-> <<>>]
    ELSE [convs |-> convs, started |-> <<>>]

\* onMessage, the isFromMe branch
OnOwnMessage(convs, message, t) ==
    IF Has(convs, message.chatId) /\ IsActive(convs, message.chatId)
    THEN [convs |-> updateOutgoingMessage(convs, message.chatId, message, TRUE, t),
          started |-> <<>>, timer |-> <<>>, response |-> "agent-sent"]
    ELSE LET convs1 == updateOutgoingMessage(convs, message.chatId, message, FALSE, t)
             awaitingConv == FindAwaiting(convs1)
         IN IF awaitingConv # NoConv /\ message.chatId = UserIdentifier
            THEN IF Reading[message.text].echo
                 THEN [convs |-> convs1, started |-> <<>>, timer |-> <<>>,
                       response |-> "echo"]
                 ELSE LET response == Reading[message.text].response
                          r == HandleReply(convs1, awaitingConv, response, t)
                      IN [convs |-> r.convs, started |-> r.started, timer |-> <<>>,
                          response |-> response]
            ELSE [convs |-> convs1, started |-> <<>>, timer |-> <<>>,
                  response |-> "user"]

\* onMessage, the incoming branch (variant that never sets the timer)
OnIncomingMessage_noTimer(convs, message, t) ==
    [convs |-> updateIncomingMessage(convs, message.chatId, message, t),
     started |-> <<>>, timer |-> <<>>, response |-> "incoming"]

\* onMessage, the incoming branch
OnIncomingMessage(convs, message, t) ==
    LET convs1 == updateIncomingMessage(convs, message.chatId, message, t)
        conv == getConversation(convs1, message.chatId)
    IN [convs |-> convs1, started |-> <<>>,
        timer |-> IF /\ conv.lastAgentDeactivationTime # Null
                     /\ ~conv.isAgentActive
                     /\ ~conv.awaitingApproval
                     /\ t - conv.lastAgentDeactivationTime < ReactivationWindowMs
                  THEN <<[chatId |-> message.chatId, due |-> t + ReactivationDelayMs]>>
                  ELSE <<>>,
        response |-> "incoming"]

\* the watcher hands the next message to onMessage
onMessage ==
    /\ inbox # <<>>
    /\ LET message == Head(inbox)
           r == IF message.isFromMe
                THEN OnOwnMessage(conversations, message, now)
                ELSE OnIncomingMessage(conversations, message, now)
       IN /\ inbox' = Tail(inbox)
          /\ conversations' = r.convs
          /\ sessions' = Running(sessions \o r.started)
          /\ timers' = [timers EXCEPT !.reactivations = @ \o r.timer]
          /\ periodSends' = IF r.started # <<>>
                            THEN [periodSends EXCEPT ![r.started[1].chatId] = 0]
                            ELSE periodSends
          /\ lastOp' = Op("onMessage", message.chatId, FALSE, <<>>, message,
                          [response |-> r.response, started |-> Len(r.started),
                           wasActive |-> Active(conversations),
                           kept |-> \A c \in Friends :
                               getConversation(r.convs, c) = getConversation(conversations, c)])
          /\ denied' = IF r.response = "deny"
                       THEN LET awaitingConv == FindAwaiting(conversations)
                            IN [denied EXCEPT ![awaitingConv.chatId] =
                                    <<awaitingConv.lastAgentDeactivationTime>>]
                       ELSE IF r.started # <<>>
                       THEN [denied EXCEPT ![r.started[1].chatId] = <<>>]
                       ELSE denied
    /\ UNCHANGED <<now, scans, budget, parsed, config>>

\* the setTimeout callback of the re-activation, index.ts lines 163-176
ReactivationTimerFires ==
    /\ timers.reactivations # <<>>
    /\ LET timer == Head(timers.reactivations)
           go == /\ Has(conversations, timer.chatId)
                 /\ ~IsActive(conversations, timer.chatId)
                 /\ ~getConversation(conversations, timer.chatId).awaitingApproval
           r == activateAgent(conversations, timer.chatId, now)
       IN /\ now >= timer.due
          /\ timers' = [timers EXCEPT !.reactivations = Tail(@)]
          /\ conversations' = IF go THEN r.convs ELSE conversations
          /\ sessions' = IF go THEN Running(Append(sessions, r.sess)) ELSE sessions
          /\ periodSends' = IF go THEN [periodSends EXCEPT ![timer.chatId] = 0]
                            ELSE periodSends
          /\ lastOp' = Op("reactivationTimer", timer.chatId, FALSE, <<>>,
                          NoMessage, <<go>>)
          /\ denied' = IF go THEN [denied EXCEPT ![timer.chatId] = <<>>] ELSE denied
    /\ UNCHANGED <<now, inbox, scans, budget, parsed, config>>

\* sendTakeoverPrompt up to its first await, for the head of the scan's list
NextOffer(list) == IF list = <<>> THEN Scan("done", <<>>, "") ELSE Scan("resolve", list, "")

\* the setInterval callback of TimerManager.startInactivityCheck
ScanTick ==
    /\ now >= timers.scanDue
    /\ LET list == ChatIds(getInactiveConversations(conversations, inactivityThresholdMs,
                                                    maxInactivityMs, UserIdentifier, now))
       IN /\ scans' = IF list = <<>> THEN scans ELSE Append(scans, NextOffer(list))
          /\ lastOp' = Op("scanTick", "", FALSE, <<>>, NoMessage, list)
    /\ timers' = [timers EXCEPT !.scanDue = now + timerCheckIntervalMs]
    /\ UNCHANGED <<now, conversations, inbox, sessions, budget, parsed, config, denied, periodSends>>

\* getFriendName returns: setFriendName and the call of sdk.send
OfferResolved ==
    \E i \in 1..Len(scans), friendName \in ResolveChoices :
        /\ scans[i].pc = "resolve"
        /\ conversations' = setFriendName(conversations, Head(scans[i].list), friendName)
        /\ scans' = Running([scans EXCEPT ![i] = Scan("send", @.list, PromptMessage(friendName))])
        /\ lastOp' = Op("offerSend", Head(scans[i].list), FALSE, <<>>, NoMessage,
                        [awaiting |-> getConversation(conversations,
                                                      Head(scans[i].list)).awaitingApproval,
                         active |-> IsActive(conversations, Head(scans[i].list)),
                         inFlight |-> \E j \in 1..Len(scans) :
                                         /\ j # i
                                         /\ scans[j].pc \in {"send", "sent"}
                                         /\ Head(scans[j].list) = Head(scans[i].list)])
        /\ UNCHANGED <<now, inbox, sessions, timers, budget, parsed, config, denied, periodSends>>

\* the transport writes the offer; the watcher will see it as an own message
OfferWritten ==
    \E i \in 1..Len(scans) :
        /\ scans[i].pc = "send"
        /\ Len(inbox) < MaxInbox
        /\ inbox' = Append(inbox, Message(UserIdentifier, scans[i].text, now, TRUE, "agent"))
        /\ scans' = Running([scans EXCEPT ![i].pc = "sent"])
        /\ lastOp' = Op("offerWritten", Head(scans[i].list), FALSE, <<>>,
                        Message(UserIdentifier, scans[i].text, now, TRUE, "agent"), <<>>)
        /\ UNCHANGED <<now, conversations, sessions, timers, budget, parsed, config, denied, periodSends>>

\* sdk.send of the offer returns: markAwaitingApproval, then the next
\* conversation of the scan
OfferSent ==
    \E i \in 1..Len(scans) :
        /\ scans[i].pc = "sent"
        /\ conversations' = markAwaitingApproval(conversations, Head(scans[i].list))
        /\ scans' = Running([scans EXCEPT ![i] = NextOffer(Tail(@.list))])
        /\ lastOp' = Op("offerSent", Head(scans[i].list), FALSE, <<>>, NoMessage,
                        [wasIdle |-> IsIdle(getConversation(conversations,
                                                            Head(scans[i].list)))])
        /\ UNCHANGED <<now, inbox, sessions, timers, budget, parsed, config, denied, periodSends>>

\* variant in which the rejection ends the scan: the conversations left in
\* its list are not offered
OfferSendFails_halts ==
    \E i \in 1..Len(scans) :
        /\ scans[i].pc = "send"
        /\ scans' = Running([scans EXCEPT ![i] = Scan("done", <<>>, "")])
        /\ lastOp' = Op("offerSendFails", Head(scans[i].list), FALSE, <<>>,
                        NoMessage, <<>>)
        /\ UNCHANGED <<now, conversations, inbox, sessions, timers, budget, parsed, config, denied,
                       periodSends>>

\* variant in which the failed offer leaves the conversation marked
OfferSendFails_marked ==
    \E i \in 1..Len(scans) :
        /\ scans[i].pc = "send"
        /\ conversations' = markAwaitingApproval(conversations, Head(scans[i].list))
        /\ scans' = Running([scans EXCEPT ![i] = NextOffer(Tail(@.list))])
        /\ lastOp' = Op("offerSendFails", Head(scans[i].list), FALSE, <<>>,
                        NoMessage, <<>>)
        /\ UNCHANGED <<now, inbox, sessions, timers, budget, parsed, config, denied,
                       periodSends>>

\* sdk.send of the offer rejects: logged, the conversation is left as it is
OfferSendFails ==
    \E i \in 1..Len(scans) :
        /\ scans[i].pc = "send"
        /\ scans' = Running([scans EXCEPT ![i] = NextOffer(Tail(@.list))])
        /\ lastOp' = Op("offerSendFails", Head(scans[i].list), FALSE, <<>>,
                        NoMessage, <<>>)
        /\ UNCHANGED <<now, conversations, inbox, sessions, timers, budget, parsed, config, denied,
                       periodSends>>

\* the transport writes a message of a session to its counterpart
CountSend(sends, convs, chatId) ==
    IF Has(convs, chatId) /\ IsActive(convs, chatId)
    THEN [sends EXCEPT ![chatId] = @ + 1]
    ELSE sends

\* relationshipAgent.generate returns or rejects in the conversation loop
GenerateReturns ==
    \E i \in 1..Len(sessions), outcome \in GenerateChoices \cup {Throw} :
        LET sess == sessions[i]
            messageText == IF outcome = Throw THEN "" ELSE TurnText[outcome]
            stop == Deactivate(conversations, sess, now)
        IN /\ sess.pc = "generate"
           /\ IF outcome = Throw \/ messageText = ""
              THEN /\ conversations' = stop.convs
                   /\ sessions' = Running([sessions EXCEPT ![i] = stop.sess])
              ELSE /\ conversations' = conversations
                   /\ sessions' = Running([sessions EXCEPT ![i] =
                                       [sess EXCEPT !.pc = "send", !.text = messageText]])
           /\ lastOp' = Op("generateReturns", sess.chatId, TRUE, <<>>,
                           NoMessage,
                           [sent |-> ~(outcome = Throw \/ messageText = ""),
                            empty |-> outcome # Throw /\ messageText = "",
                            wasActive |-> IsActive(conversations, sess.chatId)])
           /\ UNCHANGED <<now, inbox, scans, timers, budget, parsed, config, denied, periodSends>>

\* the transport writes a session's message; the watcher will see it
SendWritten ==
    \E i \in 1..Len(sessions) :
        /\ sessions[i].pc \in {"send", "windDownSend"}
        /\ Len(inbox) < MaxInbox
        /\ inbox' = Append(inbox, Message(sessions[i].chatId, sessions[i].text, now,
                                          TRUE, "agent"))
        /\ sessions' = Running([sessions EXCEPT ![i].pc =
                            IF @ = "send" THEN "sent" ELSE "windDownSent"])
        /\ periodSends' = CountSend(periodSends, conversations, sessions[i].chatId)
        /\ lastOp' = QuietOp("sendWritten")
        /\ UNCHANGED <<now, conversations, scans, timers, budget, parsed, config, denied>>

\* sdk.send of a turn returns: count it, then stop at the limit or start
\* waitForResponse
SendReturns ==
    \E i \in 1..Len(sessions) :
        LET sess == [sessions[i] EXCEPT !.messagesSent = @ + 1]
            convs1 == incrementMessageCount(conversations, sess.chatId)
            stop == Deactivate(convs1, sess, now)
        IN /\ sessions[i].pc = "sent"
           /\ IF sess.messagesSent >= config.maxMessagesToSend
              THEN /\ conversations' = stop.convs
                   /\ sessions' = Running([sessions EXCEPT ![i] = stop.sess])
              ELSE /\ conversations' = convs1
                   /\ sessions' = Running([sessions EXCEPT ![i] =
                          [sess EXCEPT !.pc = "wait", !.startTime = now,
                                       !.initialMessageCount =
                                           Len(getConversationHistory(convs1, sess.chatId, 10))]])
           /\ lastOp' = Op("sendReturns", sess.chatId, TRUE, <<>>,
                           NoMessage, <<>>)
           /\ UNCHANGED <<now, inbox, scans, timers, budget, parsed, config, denied, periodSends>>

\* sdk.send of a turn rejects: the catch of the loop breaks
SendFails ==
    \E i \in 1..Len(sessions) :
        LET stop == Deactivate(conversations, sessions[i], now)
        IN /\ sessions[i].pc = "send"
           /\ conversations' = stop.convs
           /\ sessions' = Running([sessions EXCEPT ![i] = stop.sess])
           /\ lastOp' = Op("sendFails", sessions[i].chatId, TRUE, <<>>,
                           NoMessage, <<>>)
           /\ UNCHANGED <<now, inbox, scans, timers, budget, parsed, config, denied, periodSends>>

\* waitForResponse resolved null: sendWindDownMessage up to its call of generate
WindDown(sess) == [sess EXCEPT !.pc = "windDownGenerate"]

\* a poll of waitForResponse that resolves the wait
WaitPoll ==
    \E i \in 1..Len(sessions) :
        LET sess == sessions[i]
            gone == ~Has(conversations, sess.chatId) \/ ~IsActive(conversations, sess.chatId)
        IN /\ sess.pc = "wait"
           /\ PollResolves(sess)
           /\ sessions' = Running([sessions EXCEPT ![i] =
                              IF gone THEN WindDown(sess)
                              ELSE [sess EXCEPT !.pc = "delay", !.startTime = now]])
           /\ lastOp' = Op("waitPoll", sess.chatId, TRUE, <<>>, NoMessage,
                           <<gone>>)
           /\ UNCHANGED <<now, conversations, inbox, scans, timers, budget, parsed, config, denied,
                          periodSends>>

\* the timeout of waitForResponse
WaitTimeout ==
    \E i \in 1..Len(sessions) :
        /\ sessions[i].pc = "wait"
        /\ now >= sessions[i].startTime + responseTimeoutMs
        /\ sessions' = Running([sessions EXCEPT ![i] = WindDown(@)])
        /\ lastOp' = Op("waitTimeout", sessions[i].chatId, TRUE, <<>>,
                        NoMessage, <<>>)
        /\ UNCHANGED <<now, conversations, inbox, scans, timers, budget, parsed, config, denied,
                       periodSends>>

\* the 2 s pause ends: back to the top of the loop
DelayDone ==
    \E i \in 1..Len(sessions) :
        LET r == LoopTop(conversations, sessions[i], now)
        IN /\ sessions[i].pc = "delay"
           /\ now >= sessions[i].startTime + NaturalDelayMs
           /\ conversations' = r.convs
           /\ sessions' = Running([sessions EXCEPT ![i] = r.sess])
           /\ lastOp' = Op("delayDone", sessions[i].chatId, TRUE, <<>>,
                           NoMessage, <<>>)
           /\ UNCHANGED <<now, inbox, scans, timers, budget, parsed, config, denied, periodSends>>

\* relationshipAgent.generate returns or rejects in sendWindDownMessage
WindDownGenerateReturns ==
    \E i \in 1..Len(sessions), outcome \in GenerateChoices \cup {Throw} :
        LET sess == sessions[i]
            windDownText == IF outcome = Throw THEN "" ELSE WindDownText[outcome]
            stop == Deactivate(conversations, sess, now)
        IN /\ sess.pc = "windDownGenerate"
           /\ IF outcome = Throw
              THEN /\ conversations' = stop.convs
                   /\ sessions' = Running([sessions EXCEPT ![i] = stop.sess])
              ELSE /\ conversations' = conversations
                   /\ sessions' = Running([sessions EXCEPT ![i] =
                                       [sess EXCEPT !.pc = "windDownSend",
                                                    !.text = windDownText]])
           /\ lastOp' = Op("windDownGenerateReturns", sess.chatId, TRUE, <<>>,
                           NoMessage, <<>>)
           /\ UNCHANGED <<now, inbox, scans, timers, budget, parsed, config, denied, periodSends>>

\* sdk.send of the wind-down returns or rejects: either way the loop breaks
WindDownSendEnds ==
    \E i \in 1..Len(sessions) :
        LET stop == Deactivate(conversations, sessions[i], now)
        IN /\ sessions[i].pc \in {"windDownSend", "windDownSent"}
           /\ conversations' = stop.convs
           /\ sessions' = Running([sessions EXCEPT ![i] = stop.sess])
           /\ lastOp' = Op("windDownSendEnds", sessions[i].chatId, TRUE, <<>>,
                           NoMessage, <<>>)
           /\ UNCHANGED <<now, inbox, scans, timers, budget, parsed, config, denied, periodSends>>

Next ==
    \/ Tick
    \/ FriendSends
    \/ UserTypes
    \/ onMessage
    \/ ReactivationTimerFires
    \/ ScanTick
    \/ OfferResolved
    \/ OfferWritten
    \/ OfferSent
    \/ OfferSendFails
    \/ GenerateReturns
    \/ SendWritten
    \/ SendReturns
    \/ SendFails
    \/ WaitPoll
    \/ WaitTimeout
    \/ DelayDone
    \/ WindDownGenerateReturns
    \/ WindDownSendEnds

Spec == SystemInit /\ [][Next]_vars

(***************************************************************************)
(* The same system with sessions of a single turn and a more talkative     *)
(* environment.  With maxMessagesToSend = 1 runAgentConversation leaves    *)
(* its loop right after the first send (agent-core.ts:250-255), so the     *)
(* waiting, delay and wind-down steps do not occur.                        *)
(***************************************************************************)
LongBudgets ==
    {Budget(0, 1, MaxUserMessages + 1, MaxTicks),
     Budget(0, MaxFriendMessages, MaxUserMessages, MaxTicks)}

LongTurnsChoices == {1}             \* config.maxMessagesToSend tried

LongInit ==
    /\ now = 0
    /\ conversations = <<>>
    /\ inbox = <<>>
    /\ scans = <<>>
    /\ sessions = <<>>
    /\ timers = [scanDue |-> timerCheckIntervalMs, reactivations |-> <<>>]
    /\ budget \in LongBudgets
    /\ lastOp = Op("init", "", FALSE, <<>>, NoMessage, <<>>)
    /\ parsed = [text |-> "", result |-> "unclear"]
    /\ periodSends = [chatId \in Chats |-> 0]
    /\ config \in [maxMessagesToSend : LongTurnsChoices]
    /\ denied = [chatId \in Chats |-> <<>>]

NextLong ==
    \/ Tick
    \/ FriendSends
    \/ UserTypes
    \/ onMessage
    \/ ReactivationTimerFires
    \/ ScanTick
    \/ OfferResolved
    \/ OfferWritten
    \/ OfferSent
    \/ OfferSendFails
    \/ GenerateReturns
    \/ SendWritten
    \/ SendReturns
    \/ SendFails

SpecLong == LongInit /\ [][NextLong]_vars

(***************************************************************************)
(* The running program with progress: the event loop runs every callback   *)
(* that is ready, every awaited call of the transport and of the           *)
(* generation service returns or rejects, and the clock goes on while a    *)
(* timer is pending.  The user and the counterparts are under no           *)
(* obligation: they may stay silent for ever.                              *)
(***************************************************************************)
LiveBudgets == {Budget(0, MaxFriendMessages, 1, 2)}

LiveInit ==
    /\ now = 0
    /\ conversations = <<>>
    /\ inbox = <<>>
    /\ scans = <<>>
    /\ sessions = <<>>
    /\ timers = [scanDue |-> timerCheckIntervalMs, reactivations |-> <<>>]
    /\ budget \in LiveBudgets
    /\ lastOp = Op("init", "", FALSE, <<>>, NoMessage, <<>>)
    /\ parsed = [text |-> "", result |-> "unclear"]
    /\ periodSends = [chatId \in Chats |-> 0]
    /\ config \in [maxMessagesToSend : MaxTurnsChoices]
    /\ denied = [chatId \in Chats |-> <<>>]

\* a setTimeout of a session or of a re-activation is pending
TimerPending ==
    \/ timers.reactivations # <<>>
    \/ \E i \in 1..Len(sessions) : sessions[i].pc \in {"wait", "delay"}

\* time passes while a timer is pending, whatever the environment does
ClockRuns ==
    \E d \in TickSteps :
        /\ budget.ticks = 0
        /\ TimerPending
        /\ inbox = <<>>
        /\ ~TimerDue
        /\ now' = now + d
        /\ lastOp' = QuietOp("tick")
        /\ UNCHANGED <<conversations, inbox, scans, sessions, timers, budget, parsed, config,
                       denied, periodSends>>

NextLive ==
    \/ Tick
    \/ ClockRuns
    \/ FriendSends
    \/ UserTypes
    \/ onMessage
    \/ ReactivationTimerFires
    \/ ScanTick
    \/ OfferResolved
    \/ OfferWritten
    \/ OfferSent
    \/ OfferSendFails
    \/ GenerateReturns
    \/ SendWritten
    \/ SendReturns
    \/ SendFails
    \/ WaitPoll
    \/ WaitTimeout
    \/ DelayDone
    \/ WindDownGenerateReturns
    \/ WindDownSendEnds

Progress ==
    /\ WF_vars(Tick \/ ClockRuns)
    /\ WF_vars(onMessage)
    /\ WF_vars(ReactivationTimerFires)
    /\ WF_vars(ScanTick)
    /\ WF_vars(GenerateReturns)
    /\ WF_vars(SendWritten \/ SendFails)
    /\ WF_vars(SendReturns)
    /\ WF_vars(WaitPoll)
    /\ WF_vars(WaitTimeout)
    /\ WF_vars(DelayDone)
    /\ WF_vars(WindDownGenerateReturns)
    /\ WF_vars(WindDownSendEnds)

SpecLive == LiveInit /\ [][NextLive]_vars /\ Progress

(***************************************************************************)
(* The scanner with two counterparts: both have written at time 0 and the  *)
(* user answers neither, so one scan selects both conversations.  Name     *)
(* resolution fails and the send of an offer may fail; a counterpart may   *)
(* write while the offers are under way.  Every ready callback runs and    *)
(* every awaited call returns or rejects.                                  *)
(***************************************************************************)
ScanFriends == <<"bob", "carol">>

ScanBudgets == {Budget(0, 1, 0, 3)}

ScanConversations ==
    LET first == updateIncomingMessage(<<>>, ScanFriends[1],
                     Message(ScanFriends[1], FriendText, 0, FALSE, "friend"), 0)
    IN updateIncomingMessage(first, ScanFriends[2],
           Message(ScanFriends[2], FriendText, 0, FALSE, "friend"), 0)

ScanInit ==
    /\ now = 0
    /\ conversations = ScanConversations
    /\ inbox = <<>>
    /\ scans = <<>>
    /\ sessions = <<>>
    /\ timers = [scanDue |-> timerCheckIntervalMs, reactivations |-> <<>>]
    /\ budget \in ScanBudgets
    /\ lastOp = Op("init", "", FALSE, <<>>, NoMessage, <<>>)
    /\ parsed = [text |-> "", result |-> "unclear"]
    /\ periodSends = [chatId \in Chats |-> 0]
    /\ config \in [maxMessagesToSend : {DefaultMaxMessagesToSend}]
    /\ denied = [chatId \in Chats |-> <<>>]

\* getFriendName finds no displayName or catches the rejection of listChats:
\* the fallback name is used and the offer goes on
OfferResolveFails ==
    \E i \in 1..Len(scans) :
        /\ scans[i].pc = "resolve"
        /\ conversations' = setFriendName(conversations, Head(scans[i].list), FallbackName)
        /\ scans' = Running([scans EXCEPT ![i] = Scan("send", @.list, PromptMessage(FallbackName))])
        /\ lastOp' = Op("offerResolveFails", Head(scans[i].list), FALSE, <<>>, NoMessage, <<>>)
        /\ UNCHANGED <<now, inbox, sessions, timers, budget, parsed, config, denied, periodSends>>

\* the first counterpart writes again while the scanner is at work
CounterpartWrites ==
    \E k \in {1} :
        /\ budget.friendMessages > 0
        /\ scans # <<>>
        /\ Len(inbox) < MaxInbox
        /\ inbox' = Append(inbox, Message(ScanFriends[k], FriendText, now, FALSE, "friend"))
        /\ budget' = [budget EXCEPT !.friendMessages = @ - 1]
        /\ lastOp' = QuietOp("friendSends")
        /\ UNCHANGED <<now, conversations, scans, sessions, timers, parsed, config, denied,
                       periodSends>>

NextScan ==
    \/ Tick
    \/ CounterpartWrites
    \/ onMessage
    \/ ScanTick
    \/ OfferResolveFails
    \/ OfferWritten
    \/ OfferSent
    \/ OfferSendFails

ScanProgress ==
    /\ WF_vars(onMessage)
    /\ WF_vars(ScanTick)
    /\ WF_vars(OfferResolveFails)
    /\ WF_vars(OfferWritten \/ OfferSendFails)
    /\ WF_vars(OfferSent)

SpecScan == ScanInit /\ [][NextScan]_vars /\ ScanProgress

(***************************************************************************)
(* The tracker under the configured thresholds, with a clock that goes as  *)
(* far as the five-minute window of getInactiveConversations: time passes  *)
(* in steps of one millisecond or of one millisecond less than the window. *)
(***************************************************************************)
WindowSteps == {1, RecentIncomingWindowMs - 1}      \* clock advances tried

WindowInit ==
    /\ now = 0
    /\ conversations = <<>>
    /\ inbox = <<>>
    /\ scans = <<>>
    /\ sessions = <<>>
    /\ timers = <<>>
    /\ periodSends = <<>>
    /\ config = [maxMessagesToSend |-> DefaultMaxMessagesToSend]
    /\ denied = <<>>
    /\ budget = Budget(MaxCalls, 0, 0, MaxTicks)
    /\ lastOp = Op("init", "", FALSE, NoConv, NoMessage, <<>>)
    /\ parsed = [text |-> "", result |-> "unclear"]

WindowTick ==
    \E d \in WindowSteps :
        /\ budget.ticks > 0
        /\ now' = now + d
        /\ budget' = [budget EXCEPT !.ticks = @ - 1]
        /\ lastOp' = Op("tick", "", FALSE, NoConv, NoMessage, <<>>)
        /\ UNCHANGED conversations
        /\ TrackerFrame

WindowNext ==
    \/ WindowTick
    \/ \E chatId \in TrackerChats, isAgentMessage \in BOOLEAN :
           CallUpdateOutgoingMessage(chatId, isAgentMessage)
    \/ \E chatId \in TrackerChats : CallUpdateIncomingMessage(chatId)
    \/ \E uid \in UserIdentifierChoices :
           CallGetInactiveConversations(inactivityThresholdMs, maxInactivityMs, uid)
    \/ CallMarkAwaitingApproval
    \/ CallMarkAgentActive
    \/ CallMarkAgentInactive
    \/ CallResetConversation

SpecWindow == WindowInit /\ [][WindowNext]_vars

(***************************************************************************)
(* The program with two counterparts whose offers are out at the same      *)
(* time: both have written at time 0, the user answers neither, and one    *)
(* scan selects both conversations.  Sessions have a single turn.  An      *)
(* exception may leave runAgentConversation before its inner try (the      *)
(* building of the context, agent-core.ts:184-192); it reaches the catch   *)
(* of activateAgent, which sends the notice and deactivates.               *)
(***************************************************************************)
PairChats == Chats \cup {ScanFriends[k] : k \in 1..Len(ScanFriends)}

PairBudgets == {Budget(0, 0, MaxUserMessages, 2)}

PairInit ==
    /\ now = 0
    /\ conversations = ScanConversations
    /\ inbox = <<>>
    /\ scans = <<>>
    /\ sessions = <<>>
    /\ timers = [scanDue |-> timerCheckIntervalMs, reactivations |-> <<>>]
    /\ budget \in PairBudgets
    /\ lastOp = Op("init", "", FALSE, <<>>, NoMessage, <<>>)
    /\ parsed = [text |-> "", result |-> "unclear"]
    /\ periodSends = [chatId \in PairChats |-> 0]
    /\ config \in [maxMessagesToSend : LongTurnsChoices]
    /\ denied = [chatId \in PairChats |-> <<>>]

\* the building of the context throws: the catch of activateAgent calls
\* sdk.send with the notice
ContextThrows ==
    \E i \in 1..Len(sessions) :
        /\ sessions[i].pc = "generate"
        /\ sessions' = [sessions EXCEPT ![i] =
               [@ EXCEPT !.pc = "notify",
                         !.text = ErrorNotice(getConversation(conversations,
                                                  sessions[i].chatId).friendName)]]
        /\ lastOp' = Op("contextThrows", sessions[i].chatId, TRUE, <<>>, NoMessage, <<>>)
        /\ UNCHANGED <<now, conversations, inbox, scans, timers, budget, parsed, config,
                       denied, periodSends>>

\* the transport writes the notice; the watcher will see it as an own message
NoticeWritten ==
    \E i \in 1..Len(sessions) :
        /\ sessions[i].pc = "notify"
        /\ Len(inbox) < MaxInbox
        /\ inbox' = Append(inbox, Message(UserIdentifier, sessions[i].text, now, TRUE, "agent"))
        /\ sessions' = [sessions EXCEPT ![i].pc = "notified"]
        /\ lastOp' = Op("noticeWritten", sessions[i].chatId, TRUE, <<>>, NoMessage, <<>>)
        /\ UNCHANGED <<now, conversations, scans, timers, budget, parsed, config, denied,
                       periodSends>>

\* sdk.send of the notice returns or rejects: markAgentInactive
NoticeSendEnds ==
    \E i \in 1..Len(sessions) :
        LET stop == Deactivate(conversations, sessions[i], now)
        IN /\ sessions[i].pc \in {"notify", "notified"}
           /\ conversations' = stop.convs
           /\ sessions' = Running([sessions EXCEPT ![i] = stop.sess])
           /\ lastOp' = Op("noticeSendEnds", sessions[i].chatId, TRUE, <<>>, NoMessage, <<>>)
           /\ UNCHANGED <<now, inbox, scans, timers, budget, parsed, config, denied,
                          periodSends>>

NextPair ==
    \/ Tick
    \/ UserTypes
    \/ onMessage
    \/ ScanTick
    \/ OfferResolved
    \/ OfferWritten
    \/ OfferSent
    \/ OfferSendFails
    \/ GenerateReturns
    \/ SendWritten
    \/ SendReturns
    \/ SendFails
    \/ ContextThrows
    \/ NoticeWritten
    \/ NoticeSendEnds

SpecPair == PairInit /\ [][NextPair]_vars

(***************************************************************************)
(* The program with a counterpart who writes several times after a         *)
(* session has ended, and a user who types a single message: every session *)
(* after the first is started by a re-activation timer.  Sessions have a   *)
(* single turn.                                                            *)
(***************************************************************************)
CoolingBudgets == {Budget(0, MaxFriendMessages + 1, 1, MaxTicks - 1)}

CoolingInit ==
    /\ now = 0
    /\ conversations = <<>>
    /\ inbox = <<>>
    /\ scans = <<>>
    /\ sessions = <<>>
    /\ timers = [scanDue |-> timerCheckIntervalMs, reactivations |-> <<>>]
    /\ budget \in CoolingBudgets
    /\ lastOp = Op("init", "", FALSE, <<>>, NoMessage, <<>>)
    /\ parsed = [text |-> "", result |-> "unclear"]
    /\ periodSends = [chatId \in Chats |-> 0]
    /\ config \in [maxMessagesToSend : LongTurnsChoices]
    /\ denied = [chatId \in Chats |-> <<>>]

SpecCooling == CoolingInit /\ [][NextLong]_vars

(***************************************************************************)
(* Claims.                                                                 *)
(***************************************************************************)
AfterOp == getConversation(conversations, lastOp.chatId)

\* C1 (P1, unconditional reclaim): when updateOutgoingMessage records a
\* non-automated own message for a conversation whose agent is active,
\* whatever its messagesSent, the conversation is idle right after the call
\* (agent not active, no approval awaited) and messagesSent is 0.
C1_UnconditionalReclaim ==
    (/\ lastOp.op = "updateOutgoingMessage"
     /\ ~lastOp.isAgentMessage
     /\ lastOp.before.isAgentActive)
    => (/\ ~AfterOp.isAgentActive
        /\ ~AfterOp.awaitingApproval
        /\ AfterOp.messagesSent = 0)

\* C1 witness: a user message was recorded for an active conversation that
\* had already counted a sent message.
C1_Witness ==
    /\ lastOp.op = "updateOutgoingMessage"
    /\ ~lastOp.isAgentMessage
    /\ lastOp.before.isAgentActive
    /\ lastOp.before.messagesSent > 0
    /\ ~AfterOp.isAgentActive

C5_NoActiveOrAwaitingReturned ==
    \A th \in ThresholdChoices, mx \in MaxInactivityChoices, uid \in UserIdentifierChoices :
        LET inactive == getInactiveConversations(conversations, th, mx, uid, now)
        IN \A i \in 1..Len(inactive) :
               ~inactive[i].isAgentActive /\ ~inactive[i].awaitingApproval

\* C5 witness: getInactiveConversations was called when a conversation that
\* passes the range and recency tests was active or awaiting approval, and
\* the result leaves it out.
C5_Witness ==
    /\ lastOp.op = "getInactiveConversations"
    /\ \E i \in 1..Len(conversations), mx \in MaxInactivityChoices :
           LET conv == conversations[i]
           IN /\ conv.isAgentActive \/ conv.awaitingApproval
              /\ now - conv.lastOutgoingTimestamp >= lastOp.message.date
              /\ now - conv.lastOutgoingTimestamp <= mx
              /\ conv.lastIncomingTimestamp # Null
              /\ \A j \in 1..Len(lastOp.result) : lastOp.result[j].chatId # conv.chatId

\* C8 (P5) as stated: a text that contains an approval keyword and a denial
\* keyword (after trimming and lower-casing) is classified deny.
C8_DenyWinsWhenBothMatch ==
    (/\ parsed.result # "pending"
     /\ isApproval(parsed.text)
     /\ isDenial(parsed.text))
    => parsed.result = "deny"

\* C10 (P7, eligibility window): a conversation that passes every other test
\* is returned when its inactivity equals thresholdMs or maxInactivityMs and
\* is not returned one millisecond below thresholdMs or above maxInactivityMs.
OtherTestsPass(conv, uid) ==
    /\ ~(uid # "" /\ conv.chatId = uid)
    /\ ~conv.isAgentActive /\ ~conv.awaitingApproval
    /\ conv.lastIncomingTimestamp # Null
    /\ now - conv.lastIncomingTimestamp < RecentIncomingWindowMs

Returned(conv, th, mx, uid) ==
    LET inactive == getInactiveConversations(conversations, th, mx, uid, now)
    IN \E j \in 1..Len(inactive) : inactive[j].chatId = conv.chatId

C10_WindowInclusive ==
    \A th \in ThresholdChoices, mx \in MaxInactivityChoices, uid \in UserIdentifierChoices :
        \A i \in 1..Len(conversations) :
            LET conv == conversations[i]
                inactivityMs == now - conv.lastOutgoingTimestamp
            IN (th <= mx /\ OtherTestsPass(conv, uid)) =>
                   /\ inactivityMs = th => Returned(conv, th, mx, uid)
                   /\ inactivityMs = th - 1 => ~Returned(conv, th, mx, uid)
                   /\ inactivityMs = mx => Returned(conv, th, mx, uid)
                   /\ inactivityMs = mx + 1 => ~Returned(conv, th, mx, uid)

\* C10 witness: a call returned a conversation whose inactivity is exactly
\* thresholdMs, with thresholdMs below maxInactivityMs.
C10_Witness ==
    /\ lastOp.op = "getInactiveConversations"
    /\ \E mx \in MaxInactivityChoices, i \in 1..Len(conversations) :
           /\ lastOp.message.date < mx
           /\ OtherTestsPass(conversations[i], lastOp.chatId)
           /\ now - conversations[i].lastOutgoingTimestamp = lastOp.message.date
           /\ \E k \in 1..Len(lastOp.result) :
                  lastOp.result[k].chatId = conversations[i].chatId

\* the other three cases of C10 (reached as well)
C10_BelowThresholdCase ==
    \E th \in ThresholdChoices, mx \in MaxInactivityChoices, i \in 1..Len(conversations) :
        /\ th <= mx /\ OtherTestsPass(conversations[i], "")
        /\ now - conversations[i].lastOutgoingTimestamp = th - 1
        /\ ~Returned(conversations[i], th, mx, "")

C10_AtMaxCase ==
    \E th \in ThresholdChoices, mx \in MaxInactivityChoices, i \in 1..Len(conversations) :
        /\ th < mx /\ OtherTestsPass(conversations[i], "")
        /\ now - conversations[i].lastOutgoingTimestamp = mx
        /\ Returned(conversations[i], th, mx, "")

C10_AboveMaxCase ==
    \E th \in ThresholdChoices, mx \in MaxInactivityChoices, i \in 1..Len(conversations) :
        /\ th <= mx /\ OtherTestsPass(conversations[i], "")
        /\ now - conversations[i].lastOutgoingTimestamp = mx + 1
        /\ ~Returned(conversations[i], th, mx, "")


(***************************************************************************)
(* Claims about the running program (specification Spec).                  *)
(***************************************************************************)
Routed(chatIds) ==
    /\ lastOp.op = "onMessage"
    /\ lastOp.message.isFromMe
    /\ lastOp.chatId \in chatIds

\* C2 (end-to-end user reclaim): when onMessage has processed an own message
\* that the user typed in the thread of a counterpart whose agent was active,
\* the conversation is idle, whatever its messagesSent.
C2_RouterReclaims ==
    (/\ Routed(Friends)
     /\ lastOp.message.author = "user"
     /\ lastOp.chatId \in lastOp.result.wasActive)
    => IsIdle(AfterOp)

\* C3 (stale generation results are discarded): when generate returns in the
\* conversation loop for a conversation whose agent is no longer active, the
\* text is not sent.
C3_StaleGenerationDropped ==
    (/\ lastOp.op = "generateReturns"
     /\ ~lastOp.result.wasActive)
    => ~lastOp.result.sent

\* C6 (no duplicate prompts under interleaving): sendTakeoverPrompt calls
\* sdk.send for a conversation only if, at that time, the conversation neither
\* awaits approval nor has its agent active and no other offer for it is being
\* sent.
C6_NoSecondOffer ==
    lastOp.op = "offerSend"
    => (/\ ~lastOp.result.awaiting
        /\ ~lastOp.result.active
        /\ ~lastOp.result.inFlight)

\* C7 (P4, turn bound): the messages the sessions have sent to a counterpart
\* since its agent was last activated, while the agent is active, never number
\* more than maxMessagesToSend.
C7_TurnBound ==
    \A chatId \in Chats : periodSends[chatId] <= config.maxMessagesToSend

\* C9 (P6, idempotent approval): when onMessage has processed a message on the
\* user's own address that reads as an approval while the agent of a
\* counterpart was active, no session was started and the conversations of the
\* counterparts are as they were.
C9_ApprovalWhenActiveIsNoOp ==
    (/\ Routed({UserIdentifier})
     /\ Reading[lastOp.message.text].response = "approve"
     /\ lastOp.result.wasActive # {})
    => (/\ lastOp.result.started = 0
        /\ lastOp.result.kept)

\* C9 witness: a "yes" of the user was classified as approval of a
\* conversation that awaited approval while its agent was already active, and
\* no second session was started: one session runs.
C9_Witness ==
    /\ Routed({UserIdentifier})
    /\ lastOp.message.author = "user"
    /\ lastOp.result.response = "approve"
    /\ lastOp.result.wasActive # {}
    /\ lastOp.result.started = 0
    /\ Len(sessions) = 1

\* C11 (no activation without approval): every step that makes the agent of
\* a conversation active is either onMessage reading an approval while that
\* conversation awaited approval, or the re-activation timer of a
\* conversation that is cooling down: it awaits nothing, its agent was
\* deactivated before, the user has not denied an offer for it since that
\* deactivation, and its timer was set by a counterpart message less than
\* 300000 ms after that deactivation.
C11_ActivationOnlyByApprovalOrReactivation ==
    [][\A chatId \in Chats :
          (~IsActive(conversations, chatId) /\ IsActive(conversations', chatId))
          => LET conv == getConversation(conversations, chatId)
             IN \/ /\ lastOp'.op = "onMessage"
                   /\ lastOp'.chatId = UserIdentifier
                   /\ lastOp'.result.response = "approve"
                   /\ conv.awaitingApproval
                \/ /\ lastOp'.op = "reactivationTimer"
                   /\ lastOp'.chatId = chatId
                   /\ ~conv.awaitingApproval
                   /\ conv.lastAgentDeactivationTime # Null
                   /\ denied[chatId] # <<conv.lastAgentDeactivationTime>>
                   /\ Head(timers.reactivations).due - ReactivationDelayMs
                          - conv.lastAgentDeactivationTime < ReactivationWindowMs]_vars

\* C12 (offer postcondition, Scenario A): the message an offer writes goes to
\* the user's own address and contains the friendName of the conversation;
\* and when sdk.send of the offer has returned for a conversation that was
\* idle until then, the conversation awaits approval and its agent is not
\* active.
C12_OfferPostcondition ==
    /\ lastOp.op = "offerWritten"
       => /\ lastOp.message.chatId = UserIdentifier
          /\ lastOp.message.chatId # lastOp.chatId
          /\ includes(lastOp.message.text, AfterOp.friendName)
          /\ inbox # <<>>
          /\ inbox[Len(inbox)] = lastOp.message
    /\ (lastOp.op = "offerSent" /\ lastOp.result.wasIdle)
       => /\ AfterOp.awaitingApproval
          /\ ~AfterOp.isAgentActive

\* C12 witness: sdk.send of an offer has returned for a conversation that was
\* idle, its prompt names the counterpart, and the conversation awaits
\* approval.
C12_Witness ==
    /\ lastOp.op = "offerSent"
    /\ lastOp.result.wasIdle
    /\ AfterOp.friendName \in ResolveChoices
    /\ AfterOp.awaitingApproval
    /\ ~AfterOp.isAgentActive

\* C13 (denial, Scenario B): when onMessage reads a reply on the user's own
\* address as a denial while a conversation awaits approval and its agent is
\* not active, then after that run of onMessage the conversation is idle
\* (not awaiting, agent not active, count 0), no session has started, and
\* nothing has been handed to the transport (neither an offer nor a message
\* to a counterpart).
C13_DenialBackToIdle ==
    [][LET awaitingConv == FindAwaiting(conversations)
       IN (/\ lastOp'.op = "onMessage"
           /\ lastOp'.chatId = UserIdentifier
           /\ lastOp'.result.response = "deny"
           /\ awaitingConv # NoConv
           /\ ~awaitingConv.isAgentActive)
          => /\ IsIdle(getConversation(conversations', awaitingConv.chatId))
             /\ sessions' = sessions
             /\ scans' = scans
             /\ inbox' = Tail(inbox)
             /\ periodSends' = periodSends]_vars

\* C13 witness: onMessage has just read a denial for a conversation that
\* awaited approval with its agent not active; the conversation is idle.
C13_Witness ==
    /\ lastOp.op = "onMessage"
    /\ lastOp.result.response = "deny"
    /\ \E chatId \in Friends :
           /\ denied[chatId] # <<>>
           /\ chatId \notin lastOp.result.wasActive
           /\ IsIdle(getConversation(conversations, chatId))

\* the sessions of a conversation that have not run to their end
SessionsOf(procs, chatId) == SelectSeq(procs, LAMBDA p : p.chatId = chatId)

\* C14 (approval, Scenario C): with maxMessagesToSend > 1, when sdk.send of
\* the first turn returns in the only session of a conversation whose agent is
\* still active with count 0 (no reclaim and no other session in between),
\* then the agent is still active, the count of the conversation and of the
\* session is 1, exactly one message of the session has been written to the
\* counterpart since the activation, and the session does not end: it waits
\* for the counterpart's response.
C14_FirstTurnKeepsActive ==
    [][\A chatId \in Friends :
          LET conv == getConversation(conversations, chatId)
              mine == SessionsOf(sessions, chatId)
          IN (/\ lastOp'.op = "sendReturns"
              /\ lastOp'.chatId = chatId
              /\ config.maxMessagesToSend > 1
              /\ Len(mine) = 1
              /\ mine[1].pc = "sent"
              /\ mine[1].messagesSent = 0
              /\ conv.isAgentActive
              /\ conv.messagesSent = 0)
             => LET after == getConversation(conversations', chatId)
                    left == SessionsOf(sessions', chatId)
                IN /\ after.isAgentActive
                   /\ after.messagesSent = 1
                   /\ Len(left) = 1
                   /\ left[1].messagesSent = 1
                   /\ left[1].pc = "wait"
                   /\ periodSends'[chatId] = 1]_vars

\* C14 witness: with maxMessagesToSend = 2, sdk.send of the first turn of a
\* session started by an approval (the agent was never deactivated before)
\* has returned; the agent is active with count 1 and the session waits.
C14_Witness ==
    /\ lastOp.op = "sendReturns"
    /\ config.maxMessagesToSend = 2
    /\ AfterOp.isAgentActive
    /\ AfterOp.messagesSent = 1
    /\ AfterOp.lastAgentDeactivationTime = Null
    /\ periodSends[lastOp.chatId] = 1
    /\ \E i \in 1..Len(sessions) :
           sessions[i].chatId = lastOp.chatId /\ sessions[i].pc = "wait"

\* C15 (final turn, Scenario D): when sdk.send of a turn returns in the only
\* session of an active conversation and takes the session's count from
\* maxMessagesToSend - 1 to maxMessagesToSend, the session does not wait for
\* the counterpart and does not end there: it goes on to send the wind-down
\* message, and the agent is deactivated (not active, deactivation time
\* stamped) only after that.
C15_FinalTurnWindsDown ==
    [][\A chatId \in Friends :
          LET conv == getConversation(conversations, chatId)
              mine == SessionsOf(sessions, chatId)
          IN (/\ lastOp'.op = "sendReturns"
              /\ lastOp'.chatId = chatId
              /\ Len(mine) = 1
              /\ mine[1].pc = "sent"
              /\ mine[1].messagesSent = config.maxMessagesToSend - 1
              /\ conv.isAgentActive)
             => LET left == SessionsOf(sessions', chatId)
                IN /\ Len(left) = 1
                   /\ left[1].messagesSent = config.maxMessagesToSend
                   /\ left[1].pc = "windDownGenerate"]_vars

\* C16 (turn-slot uniqueness): no two running sessions of one conversation
\* have both had their generated turn written to the counterpart without
\* either being counted yet: two such sends were made from the same value of
\* the conversation's messagesSent, by two generation turns that ran
\* concurrently to completion.
C16_TurnSlotUnique ==
    \A i, j \in 1..Len(sessions) :
        (/\ i # j
         /\ sessions[i].chatId = sessions[j].chatId
         /\ sessions[i].pc = "sent")
        => sessions[j].pc # "sent"

\* C17 (the offer is never its own answer): when onMessage handles the echo
\* of an offer (the prompt the program wrote to the user's own address), no
\* conversation of a counterpart changes and no session starts: the echo is
\* recorded as an own message and nothing else, whether or not a conversation
\* awaits approval at that moment.
C17_EchoIgnored ==
    [][(/\ lastOp'.op = "onMessage"
        /\ lastOp'.message.chatId = UserIdentifier
        /\ lastOp'.message.author = "agent")
       => /\ \A chatId \in Friends :
                getConversation(conversations', chatId) = getConversation(conversations, chatId)
          /\ sessions' = sessions
          /\ lastOp'.result.started = 0
          /\ lastOp'.result.response \in {"echo", "user"}]_vars

\* C17 witness: the echo arrived after the conversation was marked as
\* awaiting approval; read as a reply it would have been an approval, and the
\* conversation still awaits approval with its agent not active.
C17_Witness ==
    /\ lastOp.op = "onMessage"
    /\ lastOp.message.chatId = UserIdentifier
    /\ lastOp.message.author = "agent"
    /\ lastOp.result.response = "echo"
    /\ Reading[lastOp.message.text].response = "approve"
    /\ FindAwaiting(conversations) # NoConv
    /\ ~FindAwaiting(conversations).isAgentActive

\* the other case of C17: the echo arrived before any conversation was marked
\* as awaiting approval
C17_EchoBeforeMark ==
    /\ lastOp.op = "onMessage"
    /\ lastOp.message.chatId = UserIdentifier
    /\ lastOp.message.author = "agent"
    /\ lastOp.result.response = "user"
    /\ FindAwaiting(conversations) = NoConv

\* C18 (automatic deactivation): under SpecLive, whenever the agent of a
\* conversation is active it is eventually not active, whether or not the
\* counterpart or the user sends anything more: no conversation stays active
\* for ever.
C18_EventuallyInactive ==
    \A chatId \in Friends :
        IsActive(conversations, chatId) ~> ~IsActive(conversations, chatId)

\* C18 witness: a session whose counterpart stayed silent ran into the
\* timeout of waitForResponse, sent its wind-down and deactivated the agent,
\* and the user has written nothing in that thread.
C18_Witness ==
    /\ lastOp.op = "windDownSendEnds"
    /\ ~AfterOp.isAgentActive
    /\ AfterOp.lastAgentDeactivationTime = now
    /\ AfterOp.lastIncomingTimestamp + responseTimeoutMs <= now
    /\ \A k \in 1..Len(AfterOp.conversationHistory) :
           AfterOp.conversationHistory[k].author # "user"

\* C19 (bounded history): the tracker never holds more than the cap of
\* entries in the userMessageHistory or in the conversationHistory of a
\* conversation.
C19_HistoryBounded ==
    \A i \in 1..Len(conversations) :
        /\ Len(conversations[i].userMessageHistory) <= MaxHistory
        /\ Len(conversations[i].conversationHistory) <= MaxHistory

\* C20 (offer ordering): when sendTakeoverPrompt starts sdk.send of the offer,
\* the conversation is already marked as awaiting approval.
C20_MarkedBeforeSend ==
    lastOp.op = "offerSend" => AfterOp.awaitingApproval

\* the offers for a conversation whose sdk.send has been called and has not
\* returned
OffersInFlight(procs, chatId) ==
    Cardinality({i \in 1..Len(procs) :
                    procs[i].pc \in {"send", "sent"} /\ Head(procs[i].list) = chatId})

C22_FailureNotifiesUser ==
    [][\A chatId \in Friends :
          (/\ lastOp'.chatId = chatId
           /\ \/ lastOp'.op = "sendFails"
              \/ lastOp'.op = "generateReturns" /\ ~lastOp'.result.sent
           /\ IsActive(conversations, chatId))
          => Len(SessionsOf(sessions', chatId)) = Len(SessionsOf(sessions, chatId))]_vars

\* C23 (degenerate output): when relationshipAgent.generate returns a text
\* that is empty after cleanupAgentResponse, the session ends in that step
\* without handing anything to the transport and without counting a turn, and
\* the agent is deactivated: not active, messagesSent 0, deactivation time
\* stamped with the current time.
C23_EmptyTextEndsSession ==
    [][\A chatId \in Friends :
          (/\ lastOp'.op = "generateReturns"
           /\ lastOp'.chatId = chatId
           /\ lastOp'.result.empty)
          => LET after == getConversation(conversations', chatId)
             IN /\ inbox' = inbox
                /\ periodSends' = periodSends
                /\ Len(SessionsOf(sessions', chatId)) = Len(SessionsOf(sessions, chatId)) - 1
                /\ \A i \in 1..Len(sessions') :
                       \E j \in 1..Len(sessions) : sessions'[i] = sessions[j]
                /\ ~after.isAgentActive
                /\ after.messagesSent = 0
                /\ after.lastAgentDeactivationTime = now]_vars

\* C23 witness: generate has just returned a pair of quotes, which cleans to
\* the empty text, in a session of an active conversation; the agent is
\* deactivated and nothing is on its way to the counterpart.
C23_Witness ==
    /\ lastOp.op = "generateReturns"
    /\ lastOp.result.empty
    /\ lastOp.result.wasActive
    /\ ~AfterOp.isAgentActive
    /\ AfterOp.messagesSent = 0
    /\ AfterOp.lastAgentDeactivationTime = now
    /\ SessionsOf(sessions, lastOp.chatId) = <<>>
    /\ inbox = <<>>

\* a scan has just selected the conversation
Selected(chatId) ==
    /\ lastOp.op = "scanTick"
    /\ \E k \in 1..Len(lastOp.result) : lastOp.result[k] = chatId

\* sendTakeoverPrompt for the conversation has just ended, with the offer
\* sent or with the rejection caught
Offered(chatId) ==
    /\ lastOp.op \in {"offerSent", "offerSendFails"}
    /\ lastOp.chatId = chatId

\* nothing is waiting for the event loop: no message to hand over, no tick
\* of the scanner due
Quiet == inbox = <<>> /\ now < timers.scanDue

C25_Reactivation ==
    [][/\ \A chatId \in Friends :
            LET conv == getConversation(conversations, chatId)
            IN (/\ lastOp'.op = "onMessage"
                /\ lastOp'.chatId = chatId
                /\ ~lastOp'.message.isFromMe
                /\ conv.lastAgentDeactivationTime # Null
                /\ ~conv.isAgentActive
                /\ ~conv.awaitingApproval
                /\ now - conv.lastAgentDeactivationTime < ReactivationWindowMs)
               => timers'.reactivations =
                      Append(timers.reactivations,
                             [chatId |-> chatId, due |-> now + ReactivationDelayMs])
       /\ \A chatId \in Friends :
            LET conv == getConversation(conversations, chatId)
                after == getConversation(conversations', chatId)
            IN (/\ lastOp'.op = "reactivationTimer"
                /\ lastOp'.chatId = chatId
                /\ Has(conversations, chatId)
                /\ ~conv.isAgentActive
                /\ ~conv.awaitingApproval)
               => /\ now >= Head(timers.reactivations).due
                  /\ after.isAgentActive
                  /\ ~after.awaitingApproval
                  /\ after.messagesSent = 0
                  /\ Len(SessionsOf(sessions', chatId)) = Len(SessionsOf(sessions, chatId)) + 1
                  /\ sessions'[Len(sessions')] = Session("generate", chatId, 0, Null, 0, "")
                  /\ scans' = scans
                  /\ inbox' = inbox]_vars

\* C25 witness: a re-activation timer has just fired for a conversation that
\* was cooling down; its agent is active again with messagesSent 0, no offer
\* is out, and the new session is at its generate call.
C25_Witness ==
    /\ lastOp.op = "reactivationTimer"
    /\ lastOp.result = <<TRUE>>
    /\ AfterOp.isAgentActive
    /\ AfterOp.messagesSent = 0
    /\ AfterOp.lastAgentDeactivationTime # Null
    /\ now - AfterOp.lastAgentDeactivationTime < ReactivationWindowMs + ReactivationDelayMs
    /\ denied[lastOp.chatId] = <<>>
    /\ sessions # <<>>
    /\ sessions[Len(sessions)] = Session("generate", lastOp.chatId, 0, Null, 0, "")

\* the user has written in the thread themself after the agent was last
\* deactivated and not later than the time t
UserIntervened(conv, t) ==
    \E k \in 1..Len(conv.userMessageHistory) :
        /\ conv.userMessageHistory[k].author = "user"
        /\ conv.userMessageHistory[k].date > conv.lastAgentDeactivationTime
        /\ conv.userMessageHistory[k].date <= t

\* C26 (user intervention cancels re-activation): the re-activation timer
\* never activates the agent of a conversation in whose thread the user has
\* written themself after the agent was last deactivated and before the
\* timer was due, and it starts no session for it.
C26_InterventionCancelsReactivation ==
    [][\A chatId \in Friends :
          LET conv == getConversation(conversations, chatId)
          IN (/\ lastOp'.op = "reactivationTimer"
              /\ lastOp'.chatId = chatId
              /\ conv.lastAgentDeactivationTime # Null
              /\ UserIntervened(conv, Head(timers.reactivations).due))
             => /\ ~IsActive(conversations', chatId)
                /\ sessions' = sessions]_vars

\* C27 (own message withdraws the offer): when onMessage records an own
\* message in a counterpart's thread as written by the user, that
\* conversation does not await approval afterwards, whatever it was before;
\* and a reply on the user's own address never activates the agent of a
\* conversation that does not await approval.
C27_OwnMessageWithdrawsOffer ==
    [][\A chatId \in Friends :
          /\ (/\ lastOp'.op = "onMessage"
               /\ lastOp'.chatId = chatId
               /\ lastOp'.message.isFromMe
               /\ lastOp'.result.response # "agent-sent")
              => ~getConversation(conversations', chatId).awaitingApproval
          /\ (/\ lastOp'.op = "onMessage"
               /\ lastOp'.chatId = UserIdentifier
               /\ ~getConversation(conversations, chatId).awaitingApproval)
              => (IsActive(conversations', chatId) => IsActive(conversations, chatId))]_vars

\* C27 witness: an offer was sent and marked, the user then wrote in the
\* counterpart's thread, and onMessage has just read the user's "yes" on the
\* own address: no conversation awaits approval and no agent is active.
C27_Witness ==
    /\ lastOp.op = "onMessage"
    /\ lastOp.chatId = UserIdentifier
    /\ lastOp.message.author = "user"
    /\ lastOp.message.text = "yes"
    /\ lastOp.result.response = "user"
    /\ lastOp.result.started = 0
    /\ scans = <<>>
    /\ sessions = <<>>
    /\ budget.userMessages = MaxUserMessages - 2
    /\ \E chatId \in Friends :
           LET conv == getConversation(conversations, chatId)
           IN /\ conv.friendName \in ResolveChoices
              /\ ~conv.awaitingApproval
              /\ ~conv.isAgentActive
              /\ conv.lastAgentDeactivationTime = Null
              /\ Len(conv.userMessageHistory) = 1
              /\ conv.userMessageHistory[1].author = "user"

\* the last call was the first event (own or counterpart message) recorded
\* for a thread that had no record
FirstEvent ==
    /\ lastOp.op \in {"updateOutgoingMessage", "updateIncomingMessage"}
    /\ lastOp.before = NoConv

\* the last call was an event recorded for a thread that had a record
LaterEvent ==
    /\ lastOp.op \in {"updateOutgoingMessage", "updateIncomingMessage"}
    /\ lastOp.before # NoConv

\* C28 as stated: the record created on the first event of a thread is idle
\* with messagesSent 0, holds nothing but that event in its histories, and
\* has no timestamp but the one the event itself sets: after a counterpart's
\* first message lastOutgoingTimestamp is absent.
C28_CreatedWithoutTimestamps ==
    FirstEvent =>
        /\ IsIdle(AfterOp)
        /\ AfterOp.lastAgentDeactivationTime = Null
        /\ lastOp.op = "updateIncomingMessage"
               => /\ AfterOp.lastOutgoingTimestamp = Null
                  /\ AfterOp.userMessageHistory = <<>>
        /\ lastOp.op = "updateOutgoingMessage"
               => /\ AfterOp.lastIncomingTimestamp = Null
                  /\ AfterOp.conversationHistory = <<>>

\* C28 amended: the record created on the first event of a thread is idle
\* with messagesSent 0, friendName "your friend", no lastIncomingTimestamp
\* and no lastAgentDeactivationTime, empty histories, and
\* lastOutgoingTimestamp set to the time of creation, before the event's own
\* update is applied; an event for a thread that has a record changes only
\* the fields the event sets, and no thread ever has two records.
C28_CreatedWithDefaults ==
    /\ \A i, j \in 1..Len(conversations) :
           conversations[i].chatId = conversations[j].chatId => i = j
    /\ (FirstEvent /\ lastOp.op = "updateIncomingMessage")
          => AfterOp = [chatId |-> lastOp.chatId,
                        friendName |-> "your friend",
                        lastOutgoingTimestamp |-> now,
                        lastIncomingTimestamp |-> lastOp.message.date,
                        isAgentActive |-> FALSE,
                        awaitingApproval |-> FALSE,
                        messagesSent |-> 0,
                        lastAgentDeactivationTime |-> Null,
                        userMessageHistory |-> <<>>,
                        conversationHistory |-> <<lastOp.message>>]
    /\ (FirstEvent /\ lastOp.op = "updateOutgoingMessage")
          => AfterOp = [chatId |-> lastOp.chatId,
                        friendName |-> "your friend",
                        lastOutgoingTimestamp |-> lastOp.message.date,
                        lastIncomingTimestamp |-> Null,
                        isAgentActive |-> FALSE,
                        awaitingApproval |-> FALSE,
                        messagesSent |-> 0,
                        lastAgentDeactivationTime |-> Null,
                        userMessageHistory |->
                            IF lastOp.isAgentMessage THEN <<>> ELSE <<lastOp.message>>,
                        conversationHistory |-> <<>>]
    /\ (LaterEvent /\ lastOp.op = "updateIncomingMessage")
          => AfterOp = [lastOp.before EXCEPT
                            !.lastIncomingTimestamp = lastOp.message.date,
                            !.conversationHistory = Append(@, lastOp.message)]
    /\ (LaterEvent /\ lastOp.op = "updateOutgoingMessage")
          => /\ AfterOp.chatId = lastOp.before.chatId
             /\ AfterOp.friendName = lastOp.before.friendName
             /\ AfterOp.lastIncomingTimestamp = lastOp.before.lastIncomingTimestamp
             /\ AfterOp.lastAgentDeactivationTime = lastOp.before.lastAgentDeactivationTime
             /\ AfterOp.conversationHistory = lastOp.before.conversationHistory

\* C28 witness: a counterpart's message was recorded, at a later time, for a
\* thread whose record had been created by the user's own first message and
\* had since been marked as awaiting approval.
C28_Witness ==
    /\ LaterEvent
    /\ lastOp.op = "updateIncomingMessage"
    /\ lastOp.before.lastIncomingTimestamp = Null
    /\ Len(lastOp.before.userMessageHistory) = 1
    /\ lastOp.before.awaitingApproval
    /\ lastOp.message.date > lastOp.before.lastOutgoingTimestamp
    /\ AfterOp.awaitingApproval
    /\ AfterOp.lastOutgoingTimestamp = lastOp.before.lastOutgoingTimestamp
    /\ Len(conversations) = 1

\* the mutators that look the conversation up with Map.get
DirectLookupMutators ==
    {"markAwaitingApproval", "markAgentActive", "markAgentInactive", "incrementMessageCount"}

\* C29 (mutating a missing conversation fails): when markAwaitingApproval,
\* markAgentActive, markAgentInactive or incrementMessageCount is called for
\* a chatId that has no record, the call does not return normally: it
\* raises an error to its caller.
C29_MissingRecordFails ==
    (/\ lastOp.op \in DirectLookupMutators
     /\ lastOp.before = NoConv)
    => lastOp.result = "error"

\* C30 (the self-thread is never monitored): at every time, for every store
\* state, every threshold and every userIdentifier argument,
\* getInactiveConversations returns no conversation whose chatId is that
\* userIdentifier.
C30_SelfThreadNeverReturned ==
    \A th \in ThresholdChoices, mx \in MaxInactivityChoices, uid \in UserIdentifierChoices :
        LET inactive == getInactiveConversations(conversations, th, mx, uid, now)
        IN \A i \in 1..Len(inactive) : inactive[i].chatId # uid

\* C30 witness: getInactiveConversations was called with the chatId of a
\* recorded conversation as userIdentifier, at a time when that conversation
\* passes every other test (it is returned when no userIdentifier is given),
\* and returned nothing.
C30_Witness ==
    /\ lastOp.op = "getInactiveConversations"
    /\ lastOp.chatId \in TrackerChats
    /\ Has(conversations, lastOp.chatId)
    /\ lastOp.result = <<>>
    /\ \E mx \in MaxInactivityChoices :
           getInactiveConversations(conversations, lastOp.message.date, mx, "", now)
               = <<getConversation(conversations, lastOp.chatId)>>

\* C36 (automated messages are never attributed to the user): in every
\* reachable state no message a session sent to a counterpart is in that
\* conversation's userMessageHistory, and whenever onMessage is handed the
\* echo of such a message it records it as the agent's.
C36_AgentMessagesNotUsers ==
    /\ \A chatId \in Friends :
           LET conv == getConversation(conversations, chatId)
           IN \A k \in 1..Len(conv.userMessageHistory) :
                  conv.userMessageHistory[k].author # "agent"
    /\ (/\ lastOp.op = "onMessage"
        /\ lastOp.chatId \in Friends
        /\ lastOp.message.author = "agent")
       => lastOp.result.response = "agent-sent"

\* a message of a session is written to the counterpart in this step
WritesTo(chatId) ==
    /\ Len(inbox') > Len(inbox)
    /\ inbox'[Len(inbox')].chatId = chatId
    /\ inbox'[Len(inbox')].author = "agent"

\* C39 (no wind-down after reclaim): once a message typed by the user has
\* taken a conversation out of the agent's hands (it is not active, and no
\* session has been started for it since), no message of a session is
\* written to that counterpart and lastAgentDeactivationTime is not set.
C39_NoWindDownAfterReclaim ==
    [][\A chatId \in Friends :
          (/\ denied[chatId] # <<>>
           /\ ~IsActive(conversations, chatId)
           /\ ~IsActive(conversations', chatId))
          => /\ ~WritesTo(chatId)
             /\ getConversation(conversations', chatId).lastAgentDeactivationTime
                    = getConversation(conversations, chatId).lastAgentDeactivationTime]_vars

(***************************************************************************)
(* Claims about the five-minute window (specification SpecWindow).         *)
(***************************************************************************)
\* C31 (the counterpart must be owed a reply): at every time, under the
\* configured thresholds, every conversation getInactiveConversations
\* returns has a lastIncomingTimestamp, and that timestamp is less than
\* RecentIncomingWindowMs (300000 ms) before now.
C31_CounterpartOwedReply ==
    \A uid \in UserIdentifierChoices :
        LET inactive == getInactiveConversations(conversations, inactivityThresholdMs,
                                                 maxInactivityMs, uid, now)
        IN \A i \in 1..Len(inactive) :
               /\ inactive[i].lastIncomingTimestamp # Null
               /\ now - inactive[i].lastIncomingTimestamp < RecentIncomingWindowMs

\* a conversation that passes every test of getInactiveConversations but the
\* one on lastIncomingTimestamp
OwedNothing(conv) ==
    /\ ~conv.isAgentActive /\ ~conv.awaitingApproval
    /\ now - conv.lastOutgoingTimestamp >= inactivityThresholdMs
    /\ now - conv.lastOutgoingTimestamp <= maxInactivityMs

\* C31 witness: getInactiveConversations was called, with no userIdentifier,
\* when the only conversation was idle, in the inactivity range, and its
\* last counterpart message was exactly RecentIncomingWindowMs old; it
\* returned nothing.
C31_Witness ==
    /\ lastOp.op = "getInactiveConversations"
    /\ lastOp.chatId = ""
    /\ lastOp.result = <<>>
    /\ Len(conversations) = 1
    /\ OwedNothing(conversations[1])
    /\ conversations[1].lastIncomingTimestamp # Null
    /\ now - conversations[1].lastIncomingTimestamp = RecentIncomingWindowMs

\* C32 (wind-down always sends something): whenever the generation call of
\* sendWindDownMessage has ended, by returning or by rejecting, the session
\* goes on to send a non-empty exit message to the counterpart before it
\* ends.
C32_WindDownAlwaysSends ==
    [][lastOp'.op = "windDownGenerateReturns"
          => \E j \in 1..Len(sessions') :
                 /\ sessions'[j].chatId = lastOp'.chatId
                 /\ sessions'[j].pc = "windDownSend"
                 /\ sessions'[j].text # ""]_vars

\* C33 (state exclusivity): in every reachable state no conversation has
\* both isAgentActive and awaitingApproval set.
C33_ActiveExcludesAwaiting ==
    \A i \in 1..Len(conversations) :
        ~(conversations[i].isAgentActive /\ conversations[i].awaitingApproval)

\* C34 (the turn counter is zero outside a session): in every reachable state
\* a conversation whose agent is not active has messagesSent = 0.
C34_CountZeroOutsideSession ==
    \A i \in 1..Len(conversations) :
        ~conversations[i].isAgentActive => conversations[i].messagesSent = 0

(***************************************************************************)
(* Claims about two offers at a time (specification SpecPair).             *)
(***************************************************************************)
IsErrorNotice(message) ==
    /\ message.author = "agent"
    /\ \E friendName \in ResolveChoices \cup {FallbackName} :
           message.text = ErrorNotice(friendName)

\* C35 (system notices are never approvals): when onMessage is handed the
\* echo of the error notice on the user's own address, no session is started
\* and no conversation's agent becomes active.
C35_NoticeNeverApproves ==
    [][(/\ lastOp'.op = "onMessage"
        /\ lastOp'.chatId = UserIdentifier
        /\ IsErrorNotice(lastOp'.message))
       => /\ lastOp'.result.started = 0
          /\ Active(conversations') \subseteq Active(conversations)]_vars

\* the chats that await approval
AwaitingChats(convs) ==
    {convs[i].chatId : i \in {j \in 1..Len(convs) : convs[j].awaitingApproval}}

\* the first conversation of the store, in creation order, that awaits approval
FirstAwaiting(convs) ==
    convs[CHOOSE i \in 1..Len(convs) :
              /\ convs[i].awaitingApproval
              /\ \A j \in 1..(i - 1) : ~convs[j].awaitingApproval].chatId

\* C37 (one reply answers one offer): when onMessage reads an approve or deny
\* reply of the user on the own address while several conversations await
\* approval, the reply is applied to the first of them in creation order
\* (it stops awaiting; on approve its agent becomes active and one session
\* is started for it); every other conversation keeps its record, still
\* awaits approval, and gets no session.
C37_OneReplyOneOffer ==
    [][(/\ lastOp'.op = "onMessage"
        /\ lastOp'.chatId = UserIdentifier
        /\ lastOp'.message.author = "user"
        /\ lastOp'.result.response \in {"approve", "deny"}
        /\ Cardinality(AwaitingChats(conversations)) > 1)
       => LET first == FirstAwaiting(conversations)
          IN /\ ~getConversation(conversations', first).awaitingApproval
             /\ \A chatId \in AwaitingChats(conversations) \ {first} :
                    /\ getConversation(conversations', chatId)
                           = getConversation(conversations, chatId)
                    /\ SessionsOf(sessions', chatId) = SessionsOf(sessions, chatId)
             /\ lastOp'.result.response = "approve"
                    => /\ IsActive(conversations', first)
                          \/ IsActive(conversations, first)
                       /\ Len(sessions') <= Len(sessions) + 1]_vars

\* C37 witness: both counterparts awaited approval, onMessage has just read
\* the user's "yes": the first conversation's agent is active with its
\* session under way, the second still awaits approval and has no session.
C37_Witness ==
    /\ lastOp.op = "onMessage"
    /\ lastOp.chatId = UserIdentifier
    /\ lastOp.message.text = "yes"
    /\ lastOp.result.response = "approve"
    /\ lastOp.result.started = 1
    /\ IsActive(conversations, ScanFriends[1])
    /\ ~getConversation(conversations, ScanFriends[1]).awaitingApproval
    /\ getConversation(conversations, ScanFriends[2]).awaitingApproval
    /\ ~IsActive(conversations, ScanFriends[2])
    /\ SessionsOf(sessions, ScanFriends[1]) # <<>>
    /\ SessionsOf(sessions, ScanFriends[2]) = <<>>

(***************************************************************************)
(* Claims about repeated re-activation (specification SpecCooling).        *)
(***************************************************************************)
\* C38 (single re-activation): a re-activation timer starts a session only
\* if no session of its conversation has ended since the counterpart's
\* message that set the timer: when another timer of the same conversation
\* has re-activated it in the meantime, the callback starts nothing.
C38_SingleReactivation ==
    [][\A chatId \in Friends :
          (/\ lastOp'.op = "reactivationTimer"
           /\ lastOp'.chatId = chatId
           /\ getConversation(conversations, chatId).lastAgentDeactivationTime
                  > Head(timers.reactivations).due - ReactivationDelayMs)
          => /\ sessions' = sessions
             /\ ~IsActive(conversations', chatId)]_vars

====
